---------------------------- MODULE Spec2Model ----------------------------
(***************************************************************************)
(* SnapCrab (src/src/main.rs): a screenshot tool with an annotation        *)
(* canvas and a full-screen picking overlay.  The program is one           *)
(* single-threaded egui application; its only entry point after            *)
(* construction is SnapCrabApp::update, called once per frame.  Every      *)
(* action below is one whole frame of update for one kind of user input.   *)
(*                                                                         *)
(* Numbers.  The program computes in f32.  The model computes in exact     *)
(* integer arithmetic and only draws inputs for which every quotient the   *)
(* code forms is exact (display scales 1 and 1/2 of even-sized images), so *)
(* no rounding is modelled.  Option<T> is a sequence: <<>> is None and     *)
(* <<v>> is Some(v).  A String is a sequence of one-character strings.     *)
(***************************************************************************)
EXTENDS Integers, Sequences, FiniteSets, TLC

(***************************************************************************)
(* Bounds of the model (not program constants).                            *)
(***************************************************************************)
MaxAnnotations == 2   \* longest annotation list explored
MaxFrames == 4        \* frames explored from the freshly constructed application
MaxSessionFrames == 3 \* frames explored from a session with annotations
MaxPickerFrames == 2  \* frames explored on the desktop with every kind of window
MaxWindows == 2       \* longest window enumeration returned by the OS
MaxText == 1          \* longest string typed into the text prompt
MaxEdgeFrames == 3    \* frames explored on the desktop that reaches past the monitor

(***************************************************************************)
(* Option<T>                                                               *)
(***************************************************************************)
None == <<>>
Some(v) == <<v>>
is_some(o) == o # <<>>
is_none(o) == o = <<>>
unwrap(o) == o[1]

Min(a, b) == IF a <= b THEN a ELSE b
Max(a, b) == IF a >= b THEN a ELSE b

\* `f as u32` for a value the model keeps integral: negative saturates to 0.
as_u32(v) == IF v < 0 THEN 0 ELSE v
\* u32::saturating_sub
saturating_sub(a, b) == IF a >= b THEN a - b ELSE 0

(***************************************************************************)
(* egui geometry: Pos2 / Vec2 / Rect                                       *)
(***************************************************************************)
\* f32 arithmetic on values the model keeps integral.  An f32 holds 24
\* significant bits: an integer below 2^24 in magnitude is exact, a larger
\* one is rounded to the nearest multiple of its quantum (the power of two
\* that leaves 24 bits), ties to the even multiple.
RECURSIVE f32_quantum(_, _)
f32_quantum(m, q) == IF m \div q < 2^24 THEN q ELSE f32_quantum(m, 2 * q)
f32_nearest(m, q) ==
    IF 2 * (m % q) < q THEN m - (m % q)
    ELSE IF 2 * (m % q) > q THEN m - (m % q) + q
    ELSE IF (m \div q) % 2 = 0 THEN m - (m % q)
    ELSE m - (m % q) + q
f32_round(m) == f32_nearest(m, f32_quantum(m, 1))
f32(v) ==
    IF -(2^24) < v /\ v < 2^24 THEN v
    ELSE IF v < 0 THEN -f32_round(-v)
    ELSE f32_round(v)

Pos2(x, y) == [x |-> x, y |-> y]
Vec2(x, y) == [x |-> x, y |-> y]
Pos2_ZERO == Pos2(0, 0)
pos_add(p, d) == Pos2(f32(p.x + d.x), f32(p.y + d.y))
pos_sub(p, q) == Vec2(f32(p.x - q.x), f32(p.y - q.y))
vec_neg(d) == Vec2(0 - d.x, 0 - d.y)
dot(a, b) == a.x * b.x + a.y * b.y
length_sq(v) == dot(v, v)
\* Pos2::distance compared through its square (both sides are >= 0)
distance_sq(p, q) == length_sq(pos_sub(p, q))

Rect_from_min_max(mn, mx) == [min |-> mn, max |-> mx]
Rect_from_min_size(mn, size) == [min |-> mn, max |-> pos_add(mn, size)]
Rect_from_two_pos(a, b) ==
    [min |-> Pos2(Min(a.x, b.x), Min(a.y, b.y)),
     max |-> Pos2(Max(a.x, b.x), Max(a.y, b.y))]
rect_width(r) == r.max.x - r.min.x
rect_height(r) == r.max.y - r.min.y
rect_size(r) == Vec2(rect_width(r), rect_height(r))
rect_contains(r, p) ==
    /\ r.min.x <= p.x /\ p.x <= r.max.x
    /\ r.min.y <= p.y /\ p.y <= r.max.y
rect_expand(r, t) ==
    [min |-> Pos2(r.min.x - t, r.min.y - t), max |-> Pos2(r.max.x + t, r.max.y + t)]
rect_shrink(r, t) == rect_expand(r, 0 - t)
\* Rect::translate keeps the size: from_min_size(self.min + amnt, self.size())
rect_translate(r, d) == Rect_from_min_size(pos_add(r.min, d), rect_size(r))

(***************************************************************************)
(* Strings (String::is_empty, starts_with, len)                            *)
(***************************************************************************)
str_is_empty(t) == Len(t) = 0
starts_with(t, prefix) ==
    /\ Len(t) >= Len(prefix)
    /\ SubSeq(t, 1, Len(prefix)) = prefix

STR_SnapCrab == <<"S", "n", "a", "p", "C", "r", "a", "b">>
STR_ProgramManager ==
    <<"P", "r", "o", "g", "r", "a", "m", " ", "M", "a", "n", "a", "g", "e", "r">>
STR_ms == <<"m", "s", "-">>

(***************************************************************************)
(* enum Tool, enum AppState                                                *)
(***************************************************************************)
Tool == {"Arrow", "Rect", "Text", "Crop"}
AppState == {"Normal", "PickingWindow", "PickingArea"}

(***************************************************************************)
(* enum Annotation and its methods                                         *)
(***************************************************************************)
Arrow(start, end, color, thickness) ==
    [kind |-> "Arrow", start |-> start, end |-> end, color |-> color,
     thickness |-> thickness]
Rectangle(rect, color, thickness) ==
    [kind |-> "Rect", rect |-> rect, color |-> color, thickness |-> thickness]
Text(pos, text, color, size) ==
    [kind |-> "Text", pos |-> pos, text |-> text, color |-> color, size |-> size]

\* Arrow arm of hit_test.  With t = clamp(dot / len_sq, 0, 1) = tn / len_sq,
\* the squared distance of p to start + line_vec * t is
\*     |p - start|^2 - 2 * t * dot + t^2 * len_sq ;
\* it is compared with threshold^2 after multiplying both by len_sq.
\* fault: the projection is not clamped to the segment
hit_test_arrow_unclamped(start, end, p, threshold) ==
    LET line_vec == pos_sub(end, start)
        len_sq == length_sq(line_vec)
    IN  IF len_sq < 1
        THEN distance_sq(p, start) < threshold * threshold
        ELSE LET d == dot(pos_sub(p, start), line_vec)
             IN  distance_sq(p, start) * len_sq - d * d
                     < threshold * threshold * len_sq

hit_test_arrow(start, end, p, threshold) ==
    LET line_vec == pos_sub(end, start)
        len_sq == length_sq(line_vec)
    IN  IF len_sq < 1
        THEN distance_sq(p, start) < threshold * threshold
        ELSE LET d == dot(pos_sub(p, start), line_vec)
                 tn == IF d < 0 THEN 0 ELSE IF d > len_sq THEN len_sq ELSE d
             IN  distance_sq(p, start) * len_sq - 2 * tn * d + tn * tn
                     < threshold * threshold * len_sq

\* fault: only the band around the border is hit
hit_test_rect_border_only(rect, p, threshold) ==
    /\ rect_contains(rect_expand(rect, threshold), p)
    /\ ~rect_contains(rect_shrink(rect, threshold), p)

\* fault: a point must be inside the shrunk or the original rect
hit_test_rect_inside_only(rect, p, threshold) ==
    /\ rect_contains(rect_expand(rect, threshold), p)
    /\ (rect_contains(rect_shrink(rect, threshold), p) \/ rect_contains(rect, p))

hit_test_rect(rect, p, threshold) ==
    /\ rect_contains(rect_expand(rect, threshold), p)
    /\ (~rect_contains(rect_shrink(rect, threshold), p) \/ rect_contains(rect, p))

\* Text arm: the box is text.len() * size * 0.6 wide and size tall; x is
\* compared in fifths so that the factor 0.6 = 3/5 stays exact.
hit_test_text(pos, text, size, p, threshold) ==
    /\ 5 * (pos.x - threshold) <= 5 * p.x
    /\ 5 * p.x <= 5 * pos.x + 3 * Len(text) * size + 5 * threshold
    /\ pos.y - threshold <= p.y
    /\ p.y <= pos.y + size + threshold

hit_test(ann, p, threshold) ==
    CASE ann.kind = "Arrow" -> hit_test_arrow(ann.start, ann.end, p, threshold)
      [] ann.kind = "Rect" -> hit_test_rect(ann.rect, p, threshold)
      [] ann.kind = "Text" -> hit_test_text(ann.pos, ann.text, ann.size, p, threshold)

\* fault: an arrow's end is left where it was
translate_start_only(ann, delta) ==
    CASE ann.kind = "Arrow" -> [ann EXCEPT !.start = pos_add(@, delta)]
      [] ann.kind = "Rect" -> [ann EXCEPT !.rect = rect_translate(@, delta)]
      [] ann.kind = "Text" -> [ann EXCEPT !.pos = pos_add(@, delta)]

translate(ann, delta) ==
    CASE ann.kind = "Arrow" ->
            [ann EXCEPT !.start = pos_add(@, delta), !.end = pos_add(@, delta)]
      [] ann.kind = "Rect" -> [ann EXCEPT !.rect = rect_translate(@, delta)]
      [] ann.kind = "Text" -> [ann EXCEPT !.pos = pos_add(@, delta)]

(***************************************************************************)
(* image::RgbaImage.  Pixels are not stored: an image is its size and the  *)
(* place its pixels come from (which capture, and the offset of its        *)
(* top-left pixel inside that capture).                                    *)
(***************************************************************************)
RgbaImage(source, ox, oy, width, height) ==
    [source |-> source, ox |-> ox, oy |-> oy, width |-> width, height |-> height]

\* image::imageops::crop_imm(img, x, y, width, height).to_image(): the
\* library clamps the region to the image before copying it.
crop_imm(img, x, y, width, height) ==
    LET cx == Min(x, img.width)
        cy == Min(y, img.height)
        ch == Min(height, img.height - cy)
        cw == Min(width, img.width - cx)
    IN  RgbaImage(img.source, img.ox + cx, img.oy + cy, cw, ch)

\* egui texture made of an image: only its size is read back (size_vec2).
load_texture(img) == Vec2(img.width, img.height)

(***************************************************************************)
(* struct SnapCrabApp: one variable per field.  viewport is the state of   *)
(* the native window as set by the ViewportCommands the program sends.     *)
(* egui's side of a gesture: dragging is the widget the pointer is         *)
(* dragging and press_origin is where the pointer went down; panel is the  *)
(* size the window leaves to the central panel (the window is not resized  *)
(* while the pointer drags).  frames counts the calls of update and cap is *)
(* the number of frames a run explores.                                    *)
(* Three history variables are read only by the properties: last is the    *)
(* input of the latest frame, loaded is what load_captured_image left      *)
(* behind when it ran in the latest frame (None if it did not run), and    *)
(* drawn is the annotation list as the canvas handlers of the latest frame *)
(* left it, before the text prompt was laid out (None if the canvas was    *)
(* not laid out).  probe holds the arguments and results of a method that  *)
(* is called on its own, outside a frame; it is NoProbe while the program  *)
(* runs its frames.                                                        *)
(***************************************************************************)
VARIABLES image, original_image, annotations, current_tool, current_color,
          stroke_thickness, text_size, drag_start, active_annotation_index,
          show_layers, temp_text, editing_text_pos, state, fullscreen_bg,
          fullscreen_bg_image, windows, hovered_window_index,
          viewport, loaded, drawn, dragging, press_origin, panel, frames, cap,
          last, probe

vars == <<image, original_image, annotations, current_tool, current_color,
          stroke_thickness, text_size, drag_start, active_annotation_index,
          show_layers, temp_text, editing_text_pos, state, fullscreen_bg,
          fullscreen_bg_image, windows, hovered_window_index,
          viewport, loaded, drawn, dragging, press_origin, panel, frames, cap,
          last, probe>>

\* The application (self) as one value, so that a method is an operator
\* from the value before the call to the value after it.
Self ==
    [image |-> image, original_image |-> original_image,
     annotations |-> annotations, current_tool |-> current_tool,
     current_color |-> current_color, stroke_thickness |-> stroke_thickness,
     text_size |-> text_size, drag_start |-> drag_start,
     active_annotation_index |-> active_annotation_index,
     show_layers |-> show_layers, temp_text |-> temp_text,
     editing_text_pos |-> editing_text_pos, state |-> state,
     fullscreen_bg |-> fullscreen_bg, fullscreen_bg_image |-> fullscreen_bg_image,
     windows |-> windows, hovered_window_index |-> hovered_window_index,
     viewport |-> viewport, loaded |-> loaded, drawn |-> drawn]

\* SnapCrabApp::new, and the viewport main() builds (windowed, decorated).
default_self(st) ==
    [image |-> None, original_image |-> None, annotations |-> <<>>,
     current_tool |-> "Arrow", current_color |-> "RED", stroke_thickness |-> 4,
     text_size |-> 24, drag_start |-> None, active_annotation_index |-> None,
     show_layers |-> TRUE, temp_text |-> <<>>, editing_text_pos |-> None,
     state |-> st, fullscreen_bg |-> None, fullscreen_bg_image |-> None,
     windows |-> <<>>, hovered_window_index |-> None,
     viewport |-> [visible |-> TRUE, decorations |-> TRUE, fullscreen |-> FALSE],
     loaded |-> None, drawn |-> None]

\* a construction that starts in the area picker
new_picking == default_self("PickingArea")

new == default_self("Normal")

(***************************************************************************)
(* The OS collaborators (xcap): outcomes are inputs of the frame.          *)
(***************************************************************************)
\* The monitor's size in pixels.
MonitorImage == RgbaImage("monitor", 0, 0, 120, 80)

\* Monitor::all(), .first(), .capture_image(): Some(image) only if all
\* succeed.  "CaptureErr" stands for a failure at any of the three.
MonitorOutcomes == {"Ok", "CaptureErr"}
capture_first_monitor(outcome) ==
    IF outcome = "Ok" THEN Some(MonitorImage) ELSE None

\* A window as xcap reports it.  A failing getter is its unwrap_or default
\* (empty title or application name, not minimized, 0).
OsWindow(title, app_name, minimized, x, y, width, height) ==
    [title |-> title, app_name |-> app_name, minimized |-> minimized,
     x |-> x, y |-> y, width |-> width, height |-> height]

WindowInfo(rect, title, app_name) ==
    [rect |-> rect, title |-> title, app_name |-> app_name]

\* Window::capture_image() of a window, when it succeeds.
window_image(w) == RgbaImage("window", 0, 0, w.width, w.height)

(***************************************************************************)
(* enter_pick_mode: the filter, the sort and the method                    *)
(***************************************************************************)
\* fault: minimized windows are not skipped
is_valid_minimized_too(w) ==
    /\ ~str_is_empty(w.title)
    /\ w.title # STR_SnapCrab
    /\ w.app_name # STR_SnapCrab
    /\ w.title # STR_ProgramManager
    /\ ~starts_with(w.title, STR_ms)
    /\ w.width > 10
    /\ w.height > 10

is_valid(w) ==
    /\ ~w.minimized
    /\ ~str_is_empty(w.title)
    /\ w.title # STR_SnapCrab
    /\ w.app_name # STR_SnapCrab
    /\ w.title # STR_ProgramManager
    /\ ~starts_with(w.title, STR_ms)
    /\ w.width > 10
    /\ w.height > 10

window_info(w) ==
    WindowInfo(Rect_from_min_size(Pos2(w.x, w.y), Vec2(w.width, w.height)),
               w.title, w.app_name)

\* for w in windows { if is_valid { self.windows.push(..) } }
RECURSIVE push_valid(_, _)
push_valid(list, ws) ==
    IF ws = <<>> THEN list
    ELSE push_valid(IF is_valid(Head(ws)) THEN Append(list, window_info(Head(ws)))
                    ELSE list, Tail(ws))

area(info) == rect_width(info.rect) * rect_height(info.rect)

\* slice::sort_by on the area: a stable sort (insertion keeps equal keys in
\* their order of arrival).
RECURSIVE insert_by_area(_, _)
insert_by_area(sorted, info) ==
    IF sorted = <<>> THEN <<info>>
    ELSE IF area(info) < area(Head(sorted)) THEN <<info>> \o sorted
    ELSE <<Head(sorted)>> \o insert_by_area(Tail(sorted), info)

\* fault: the candidates are left in the order of enumeration
unsorted(list) == list

RECURSIVE sort_by_area(_)
sort_by_area(list) ==
    IF list = <<>> THEN <<>>
    ELSE insert_by_area(sort_by_area(SubSeq(list, 1, Len(list) - 1)),
                        list[Len(list)])

\* ctx.send_viewport_cmd(ViewportCommand::<cmd>(value))
send_viewport_cmd(s, cmd, value) == [s EXCEPT !.viewport[cmd] = value]

\* if let Ok(image) = monitor.capture_image() { self.fullscreen_bg = ..; }
freeze_background(s, bg) ==
    IF is_some(bg)
    THEN [s EXCEPT !.fullscreen_bg = Some(load_texture(unwrap(bg))),
                   !.fullscreen_bg_image = bg]
    ELSE s

\* if state == AppState::PickingWindow { self.windows.clear(); .. }
list_windows(s, new_state, window_all) ==
    IF new_state = "PickingWindow"
    THEN [s EXCEPT !.windows =
             IF is_some(window_all)
             THEN sort_by_area(push_valid(<<>>, unwrap(window_all)))
             ELSE <<>>]
    ELSE s

set_state(s, new_state) == [s EXCEPT !.state = new_state]

\* fault: the window is made visible again only if the snapshot was taken
enter_pick_mode_stays_hidden(s, new_state, monitor, window_all) ==
    send_viewport_cmd(
        send_viewport_cmd(
            send_viewport_cmd(
                set_state(
                    list_windows(
                        freeze_background(send_viewport_cmd(s, "visible", FALSE),
                                          capture_first_monitor(monitor)),
                        new_state, window_all),
                    new_state),
                "decorations", FALSE),
            "fullscreen", TRUE),
        "visible", is_some(capture_first_monitor(monitor)))

\* monitor: outcome of the monitor capture; window_all: Window::all(),
\* None for Err and Some(list) for Ok(list).
enter_pick_mode(s, new_state, monitor, window_all) ==
    send_viewport_cmd(
        send_viewport_cmd(
            send_viewport_cmd(
                set_state(
                    list_windows(
                        freeze_background(send_viewport_cmd(s, "visible", FALSE),
                                          capture_first_monitor(monitor)),
                        new_state, window_all),
                    new_state),
                "decorations", FALSE),
            "fullscreen", TRUE),
        "visible", TRUE)

\* fault: leaving picking mode drops the selection
exit_pick_mode_deselect(s) ==
    send_viewport_cmd(
        send_viewport_cmd([s EXCEPT !.state = "Normal",
                                    !.fullscreen_bg = None,
                                    !.fullscreen_bg_image = None,
                                    !.windows = <<>>,
                                    !.active_annotation_index = None],
                          "fullscreen", FALSE),
        "decorations", TRUE)

\* fault: leaving picking mode keeps the frozen background's pixels
exit_pick_mode_keep_background(s) ==
    send_viewport_cmd(
        send_viewport_cmd([s EXCEPT !.state = "Normal",
                                    !.fullscreen_bg = None,
                                    !.windows = <<>>],
                          "fullscreen", FALSE),
        "decorations", TRUE)

exit_pick_mode(s) ==
    send_viewport_cmd(
        send_viewport_cmd([s EXCEPT !.state = "Normal",
                                    !.fullscreen_bg = None,
                                    !.fullscreen_bg_image = None,
                                    !.windows = <<>>],
                          "fullscreen", FALSE),
        "decorations", TRUE)

\* what the method was given, found (before) and left behind (read by the
\* properties only)
record_load(s, img, before) ==
    [s EXCEPT !.loaded = Some([given |-> img, before |-> before,
                               image |-> s.image,
                               original_image |-> s.original_image,
                               annotations |-> s.annotations])]

\* fault: the annotations of the previous image are kept
load_captured_image_keep(s, img) ==
    record_load([s EXCEPT !.image = Some(load_texture(img)),
                          !.original_image = Some(img)],
                img, s.annotations)

load_captured_image(s, img) ==
    record_load([s EXCEPT !.image = Some(load_texture(img)),
                          !.original_image = Some(img),
                          !.annotations = <<>>],
                img, s.annotations)

(***************************************************************************)
(* Coordinate mapping.  The quotients are exact for the inputs drawn.      *)
(***************************************************************************)
ui_to_image(s, ui_pos, image_rect) ==
    IF is_some(s.original_image)
    THEN LET original == unwrap(s.original_image)
         IN  Pos2(((ui_pos.x - image_rect.min.x) * original.width)
                      \div rect_width(image_rect),
                  ((ui_pos.y - image_rect.min.y) * original.height)
                      \div rect_height(image_rect))
    ELSE ui_pos

\* What a division by the zero width or height of an image leaves in an
\* f32 position: NaN (0.0 / 0.0) or an infinity, neither of which is a
\* point.
Pos2_NotFinite == [finite |-> FALSE]

\* fault: the origin of the rect is not added
image_to_ui_no_offset(s, img_pos, image_rect) ==
    IF is_some(s.original_image)
    THEN LET original == unwrap(s.original_image)
         IN  IF original.width = 0 \/ original.height = 0
             THEN Pos2_NotFinite
             ELSE Pos2((img_pos.x * rect_width(image_rect)) \div original.width,
                       (img_pos.y * rect_height(image_rect)) \div original.height)
    ELSE img_pos

image_to_ui(s, img_pos, image_rect) ==
    IF is_some(s.original_image)
    THEN LET original == unwrap(s.original_image)
         IN  IF original.width = 0 \/ original.height = 0
             THEN Pos2_NotFinite
             ELSE Pos2(image_rect.min.x
                           + (img_pos.x * rect_width(image_rect))
                                 \div original.width,
                       image_rect.min.y
                           + (img_pos.y * rect_height(image_rect))
                                 \div original.height)
    ELSE img_pos

(***************************************************************************)
(* The input of one frame: what egui and the OS report to update.  Each    *)
(* action fills in the fields its kind of frame can carry; the others keep *)
(* the value of NoInput.                                                   *)
(***************************************************************************)
\* The central panel is large enough to show a whole monitor capture.
BigPanel == Vec2(1200, 800)

NoInput ==
    [ev |-> "Idle",
     button |-> "none",            \* button of the top panel that was clicked
     start_button |-> "none",      \* button of the start screen that was clicked
     tool |-> None,                \* selectable_value chosen
     color |-> None,               \* colour picked
     thickness |-> None,           \* slider value set
     layer_select |-> None,        \* index of the layer label clicked
     layer_remove |-> None,        \* index of the layer whose bin was clicked
     avail |-> BigPanel,           \* ui.available_size() of the central panel
     drag_started |-> FALSE, dragged |-> FALSE, drag_stopped |-> FALSE,
     interact_pointer_pos |-> None,
     drag_delta |-> Vec2(0, 0),
     pointer_latest_pos |-> None,
     clicked |-> FALSE,            \* response.clicked() of the overlay
     escape |-> FALSE, enter |-> FALSE, lost_focus |-> FALSE,
     typed |-> <<>>,               \* characters typed into the text prompt
     monitor |-> "Ok",             \* outcome of the monitor capture, if made
     window_all |-> None,          \* Window::all(), if called
     capture_ok |-> FALSE]         \* target.capture_image().is_ok(), if called

(***************************************************************************)
(* draw_picking_ui                                                         *)
(***************************************************************************)
\* .iter().enumerate().find(|(_, w)| w.rect.contains(pointer_pos)).map(|(i, _)| i)
\* (indices are 0-based as in the program)
RECURSIVE position_from(_, _, _)
position_from(ws, pointer_pos, i) ==
    IF i > Len(ws) THEN None
    ELSE IF rect_contains(ws[i].rect, pointer_pos) THEN Some(i - 1)
    ELSE position_from(ws, pointer_pos, i + 1)

find_hovered(ws, pointer_pos) == position_from(ws, pointer_pos, 1)

\* windows.iter().find(|w| w.title() == title && w.app_name() == app)
find_target(ws, title, app) ==
    LET hits == {i \in 1..Len(ws) : ws[i].title = title /\ ws[i].app_name = app}
    IN  IF hits = {} THEN None
        ELSE Some(ws[CHOOSE i \in hits : \A j \in hits : i <= j])

\* fault: the width and height are not clamped to the background
crop_background_unclamped(s, rect) ==
    IF is_some(s.fullscreen_bg_image)
    THEN LET bg == unwrap(s.fullscreen_bg_image)
             x == as_u32(Max(rect.min.x, 0))
             y == as_u32(Max(rect.min.y, 0))
             w == as_u32(rect_width(rect))
             h == as_u32(rect_height(rect))
         IN  IF w > 0 /\ h > 0
             THEN load_captured_image(s, crop_imm(bg, x, y, w, h))
             ELSE s
    ELSE s

\* The crop of the frozen background to rect, clamped to the background
\* (the same code in the window fallback and in the area pick).
crop_background(s, rect) ==
    IF is_some(s.fullscreen_bg_image)
    THEN LET bg == unwrap(s.fullscreen_bg_image)
             x == as_u32(Max(rect.min.x, 0))
             y == as_u32(Max(rect.min.y, 0))
             w == Min(as_u32(rect_width(rect)), saturating_sub(bg.width, x))
             h == Min(as_u32(rect_height(rect)), saturating_sub(bg.height, y))
         IN  IF w > 0 /\ h > 0
             THEN load_captured_image(s, crop_imm(bg, x, y, w, h))
             ELSE s
    ELSE s

\* the live capture of the window with the hovered window's title and
\* application name: Some(image), or None if any step fails
live_capture(in, info) ==
    IF is_some(in.window_all) /\ in.capture_ok
          /\ is_some(find_target(unwrap(in.window_all), info.title, info.app_name))
    THEN Some(window_image(unwrap(find_target(unwrap(in.window_all),
                                              info.title, info.app_name))))
    ELSE None

\* fault: the frozen background is preferred to the live capture
capture_window_crop_first(s, in, info) ==
    IF is_some(s.fullscreen_bg_image) THEN crop_background(s, info.rect)
    ELSE IF is_some(live_capture(in, info))
    THEN load_captured_image(s, unwrap(live_capture(in, info)))
    ELSE s

\* if let Some(idx) = self.hovered_window_index { .. }
capture_window(s, in, info) ==
    IF is_some(live_capture(in, info))
    THEN load_captured_image(s, unwrap(live_capture(in, info)))
    ELSE crop_background(s, info.rect)

\* fault: exit_pick_mode is called inside the if on the hovered window
window_clicked_exit_if_hovered(s, in) ==
    IF is_some(s.hovered_window_index)
    THEN exit_pick_mode(
             capture_window(s, in, s.windows[unwrap(s.hovered_window_index) + 1]))
    ELSE s

\* if response.clicked() { .. self.exit_pick_mode(ctx); }
window_clicked(s, in) ==
    exit_pick_mode(
        IF is_some(s.hovered_window_index)
        THEN capture_window(s, in, s.windows[unwrap(s.hovered_window_index) + 1])
        ELSE s)

set_hovered(s, pointer_pos) ==
    [s EXCEPT !.hovered_window_index = find_hovered(s.windows, pointer_pos)]

picking_window(s, in, pointer_pos) ==
    IF in.clicked
    THEN window_clicked(set_hovered(s, pointer_pos), in)
    ELSE set_hovered(s, pointer_pos)

\* if response.drag_stopped() { .. self.drag_start = None; exit_pick_mode }
clear_drag_start(s) == [s EXCEPT !.drag_start = None]

\* fault: a rect of exactly 5 pixels is accepted
crop_area_from_5(s, rect) ==
    IF rect_width(rect) >= 5 /\ rect_height(rect) >= 5
    THEN crop_background(s, rect)
    ELSE s

crop_area(s, rect) ==
    IF rect_width(rect) > 5 /\ rect_height(rect) > 5
    THEN crop_background(s, rect)
    ELSE s

area_released(s, in) ==
    exit_pick_mode(
        clear_drag_start(
            IF is_some(s.drag_start) /\ is_some(in.interact_pointer_pos)
            THEN crop_area(s, Rect_from_two_pos(unwrap(s.drag_start),
                                                unwrap(in.interact_pointer_pos)))
            ELSE s))

\* if response.drag_started() { self.drag_start = response.interact_pointer_pos(); }
area_drag_started(s, in) ==
    IF in.drag_started THEN [s EXCEPT !.drag_start = in.interact_pointer_pos] ELSE s

picking_area(s, in) ==
    IF in.drag_stopped
    THEN area_released(area_drag_started(s, in), in)
    ELSE area_drag_started(s, in)

\* ctx.pointer_latest_pos().unwrap_or_default()
unwrap_or_default(o) == IF is_some(o) THEN unwrap(o) ELSE Pos2_ZERO

picking_match(s, in) ==
    CASE s.state = "PickingWindow" ->
            picking_window(s, in, unwrap_or_default(in.pointer_latest_pos))
      [] s.state = "PickingArea" -> picking_area(s, in)
      [] OTHER -> s

\* fault: the Escape key is not read
escape_key_ignored(s, in) == s

escape_key(s, in) == IF in.escape THEN exit_pick_mode(s) ELSE s

draw_picking_ui(s, in) == escape_key(picking_match(s, in), in)

(***************************************************************************)
(* update, state Normal: top panel, layers panel, central panel            *)
(***************************************************************************)
\* if ui.button("Fullscreen").clicked() { .. load_captured_image .. }
\* fault: a failed capture drops the annotations
fullscreen_clicked_or_clear(s, in) ==
    LET img == capture_first_monitor(in.monitor)
    IN  IF is_some(img) THEN load_captured_image(s, unwrap(img))
        ELSE [s EXCEPT !.annotations = <<>>]

fullscreen_clicked(s, in) ==
    LET img == capture_first_monitor(in.monitor)
    IN  IF is_some(img) THEN load_captured_image(s, unwrap(img)) ELSE s

\* the Capture menu
capture_menu(s, in) ==
    CASE in.button = "Fullscreen" -> fullscreen_clicked(s, in)
      [] in.button = "SelectWindow" ->
             enter_pick_mode(s, "PickingWindow", in.monitor, in.window_all)
      [] in.button = "SelectArea" ->
             enter_pick_mode(s, "PickingArea", in.monitor, in.window_all)
      [] OTHER -> s

\* ui.selectable_value(&mut self.current_tool, ..): the Crop entry is shown
\* only if self.image.is_some()
tool_bar(s, in) ==
    IF is_some(in.tool) /\ (unwrap(in.tool) # "Crop" \/ is_some(s.image))
    THEN [s EXCEPT !.current_tool = unwrap(in.tool)]
    ELSE s

color_button(s, in) ==
    IF is_some(in.color) THEN [s EXCEPT !.current_color = unwrap(in.color)] ELSE s

size_slider(s, in) ==
    IF is_some(in.thickness)
    THEN [s EXCEPT !.stroke_thickness = unwrap(in.thickness)]
    ELSE s

layers_toggle(s, in) ==
    IF in.button = "Layers" THEN [s EXCEPT !.show_layers = ~@] ELSE s

\* Save and Copy write the file or the clipboard and leave self alone
clear_button(s, in) ==
    IF in.button = "Clear" THEN [s EXCEPT !.annotations = <<>>] ELSE s

top_panel(s, in) ==
    clear_button(
        layers_toggle(
            size_slider(color_button(tool_bar(capture_menu(s, in), in), in), in),
            in),
        in)

\* fault: the last annotation is removed, whatever the index
remove_last(list, i) == SubSeq(list, 1, Len(list) - 1)

\* Vec::remove(i), i 0-based
remove(list, i) == SubSeq(list, 1, i) \o SubSeq(list, i + 2, Len(list))

layer_label(s, in) ==
    IF is_some(in.layer_select)
    THEN [s EXCEPT !.active_annotation_index = in.layer_select]
    ELSE s

layer_bin(s, in) ==
    IF is_some(in.layer_remove)
    THEN [s EXCEPT !.annotations = remove(@, unwrap(in.layer_remove)),
                   !.active_annotation_index = None]
    ELSE s

layers_panel(s, in) ==
    IF s.show_layers THEN layer_bin(layer_label(s, in), in) ELSE s

\* Where allocate_at_least places the image in the central panel.
CanvasOrigin == Pos2(0, 30)

\* scale = (avail.x / tex.x).min(avail.y / tex.y).min(1.0), as the fraction
\* num / den.  A quotient by a zero texture size is +inf and never the minimum.
frac_le(a, b) == a.num * b.den <= b.num * a.den
frac_min(a, b) == IF frac_le(a, b) THEN a ELSE b
scale_to_fit(avail, tex) ==
    LET one == [num |-> 1, den |-> 1]
        sx == IF tex.x > 0 THEN [num |-> avail.x, den |-> tex.x] ELSE one
        sy == IF tex.y > 0 THEN [num |-> avail.y, den |-> tex.y] ELSE one
    IN  frac_min(frac_min(sx, sy), one)

\* v / scale and v * scale
div_scale(v, scale) == (v * scale.den) \div scale.num
mul_scale(v, scale) == (v * scale.num) \div scale.den

\* the rect the image is drawn into: display_size = texture.size_vec2() * scale
image_rect(tex, scale) ==
    Rect_from_min_size(CanvasOrigin,
                       Vec2(mul_scale(tex.x, scale), mul_scale(tex.y, scale)))

\* .iter().enumerate().rev().find(|(_, ann)| ann.hit_test(pos_img, threshold))
\* .map(|(i, _)| i)
RECURSIVE rfind_from(_, _, _, _)
rfind_from(anns, pos_img, threshold, i) ==
    IF i = 0 THEN None
    ELSE IF hit_test(anns[i], pos_img, threshold) THEN Some(i - 1)
    ELSE rfind_from(anns, pos_img, threshold, i - 1)

\* fault: the list is searched from the front (.rev() is missing)
RECURSIVE find_from(_, _, _, _)
find_from(anns, pos_img, threshold, i) ==
    IF i > Len(anns) THEN None
    ELSE IF hit_test(anns[i], pos_img, threshold) THEN Some(i - 1)
    ELSE find_from(anns, pos_img, threshold, i + 1)

find_bottommost(anns, pos_img, threshold) == find_from(anns, pos_img, threshold, 1)

find_topmost(anns, pos_img, threshold) ==
    rfind_from(anns, pos_img, threshold, Len(anns))

\* if self.current_tool != Tool::Crop { self.active_annotation_index = .. }
select_hit(s, pos_img, threshold) ==
    IF s.current_tool # "Crop"
    THEN [s EXCEPT !.active_annotation_index =
             find_topmost(s.annotations, pos_img, threshold)]
    ELSE s

\* if self.current_tool == Tool::Text { .. }
open_prompt(s, pos_ui) ==
    IF s.current_tool = "Text"
    THEN [s EXCEPT !.editing_text_pos = Some(pos_ui), !.temp_text = <<>>]
    ELSE s

\* if self.active_annotation_index.is_none() { self.drag_start = .. }
begin_drag(s, pos_ui) ==
    IF is_none(s.active_annotation_index)
    THEN open_prompt([s EXCEPT !.drag_start = Some(pos_ui)], pos_ui)
    ELSE s

\* if response.drag_started() { .. }
canvas_drag_started(s, in, rect, scale) ==
    IF in.drag_started /\ is_some(in.interact_pointer_pos)
    THEN begin_drag(select_hit(s,
                               ui_to_image(s, unwrap(in.interact_pointer_pos), rect),
                               div_scale(10, scale)),
                    unwrap(in.interact_pointer_pos))
    ELSE s

\* fault: the drag delta is not divided by the display scale
canvas_dragged_unscaled(s, in, scale) ==
    IF in.dragged /\ is_some(s.active_annotation_index)
    THEN LET idx == unwrap(s.active_annotation_index)
         IN  IF idx < Len(s.annotations)
             THEN [s EXCEPT !.annotations[idx + 1] = translate(@, in.drag_delta)]
             ELSE s
    ELSE s

\* if response.dragged() { .. }
canvas_dragged(s, in, scale) ==
    IF in.dragged /\ is_some(s.active_annotation_index)
    THEN LET idx == unwrap(s.active_annotation_index)
             delta_img == Vec2(div_scale(in.drag_delta.x, scale),
                               div_scale(in.drag_delta.y, scale))
         IN  IF idx < Len(s.annotations)
             THEN [s EXCEPT !.annotations[idx + 1] = translate(@, delta_img)]
             ELSE s
    ELSE s

\* Tool::Crop => { if let Some(ref bg) = self.original_image { .. } }
crop_to(s, crop) ==
    IF is_some(s.original_image)
    THEN load_captured_image(s,
             crop_imm(unwrap(s.original_image),
                      as_u32(crop.min.x), as_u32(crop.min.y),
                      as_u32(rect_width(crop)), as_u32(rect_height(crop))))
    ELSE s

set_tool(s, t) == [s EXCEPT !.current_tool = t]

\* the match on self.current_tool once start.distance(end) > 1.0
commit_drag(s, start, end) ==
    CASE s.current_tool = "Arrow" ->
            [s EXCEPT !.annotations =
                Append(@, Arrow(start, end, s.current_color, s.stroke_thickness))]
      [] s.current_tool = "Rect" ->
            [s EXCEPT !.annotations =
                Append(@, Rectangle(Rect_from_two_pos(start, end), s.current_color,
                                    s.stroke_thickness))]
      [] s.current_tool = "Crop" ->
            set_tool(crop_to(s, Rect_from_two_pos(start, end)), "Arrow")
      [] OTHER -> s

\* if let (Some(start_ui), Some(end_ui)) = (self.drag_start, ..) { .. }
\* fault: a drag of exactly one pixel is committed
release_drag_from_1(s, start, end) ==
    IF distance_sq(start, end) >= 1 THEN commit_drag(s, start, end) ELSE s

release_drag(s, start, end) ==
    IF distance_sq(start, end) > 1 THEN commit_drag(s, start, end) ELSE s

\* if response.drag_stopped() { .. self.drag_start = None; }
canvas_drag_stopped(s, in, rect) ==
    IF in.drag_stopped
    THEN clear_drag_start(
             IF is_some(s.drag_start) /\ is_some(in.interact_pointer_pos)
             THEN release_drag(s, ui_to_image(s, unwrap(s.drag_start), rect),
                               ui_to_image(s, unwrap(in.interact_pointer_pos), rect))
             ELSE s)
    ELSE s

\* if let Some(pos_ui) = self.editing_text_pos { .. } : the text prompt
\* ui.text_edit_singleline(&mut self.temp_text)
text_edit(s, in) == [s EXCEPT !.temp_text = @ \o in.typed]

\* fault: the text prompt commits an empty string too
push_text_even_empty(s, rect) ==
    [s EXCEPT !.annotations =
        Append(@, Text(ui_to_image(s, unwrap(s.editing_text_pos), rect),
                       s.temp_text, s.current_color, s.text_size))]

push_text(s, rect) ==
    IF ~str_is_empty(s.temp_text)
    THEN [s EXCEPT !.annotations =
             Append(@, Text(ui_to_image(s, unwrap(s.editing_text_pos), rect),
                            s.temp_text, s.current_color, s.text_size))]
    ELSE s

close_prompt(s) == [s EXCEPT !.editing_text_pos = None]

text_entry(s, in, rect) ==
    IF is_some(s.editing_text_pos)
    THEN IF in.lost_focus \/ in.enter
         THEN close_prompt(push_text(text_edit(s, in), rect))
         ELSE text_edit(s, in)
    ELSE s

\* the buttons shown in place of the canvas while no image is loaded
start_screen(s, in) ==
    CASE in.start_button = "Fullscreen" -> fullscreen_clicked(s, in)
      [] in.start_button = "Window" ->
             enter_pick_mode(s, "PickingWindow", in.monitor, in.window_all)
      [] in.start_button = "Area" ->
             enter_pick_mode(s, "PickingArea", in.monitor, in.window_all)
      [] OTHER -> s

\* the rect of the image for this frame's panel size
frame_rect(s, in) == image_rect(unwrap(s.image), scale_to_fit(in.avail, unwrap(s.image)))

\* the drag handling of the canvas, before the text prompt
canvas_pointer(s, in) ==
    canvas_drag_stopped(
        canvas_dragged(
            canvas_drag_started(s, in, frame_rect(s, in),
                                scale_to_fit(in.avail, unwrap(s.image))),
            in, scale_to_fit(in.avail, unwrap(s.image))),
        in, frame_rect(s, in))

\* the annotation list as the canvas leaves it, before the text prompt is
\* laid out (read by the properties only)
record_drawn(s) == [s EXCEPT !.drawn = Some(s.annotations)]

central_panel(s, in) ==
    IF is_some(s.image)
    THEN text_entry(record_drawn(canvas_pointer(s, in)), in, frame_rect(s, in))
    ELSE start_screen(s, in)

update(s, in) ==
    IF s.state # "Normal"
    THEN draw_picking_ui(s, in)
    ELSE central_panel(layers_panel(top_panel(s, in), in), in)

(***************************************************************************)
(* Inputs explored                                                         *)
(***************************************************************************)
\* Windows of the desktop.
W_small == OsWindow(<<"a">>, <<"x">>, FALSE, 20, 20, 20, 20)
W_big == OsWindow(<<"b">>, <<"x">>, FALSE, 0, 0, 60, 50)
W_tie == OsWindow(<<"c">>, <<"y">>, FALSE, 30, 30, 16, 25)
W_minimized == OsWindow(<<"f">>, <<"x">>, TRUE, 0, 0, 60, 50)
W_untitled == OsWindow(<<>>, <<"x">>, FALSE, 0, 0, 60, 50)
W_self_title == OsWindow(STR_SnapCrab, <<"x">>, FALSE, 0, 0, 60, 50)
W_self_app == OsWindow(<<"g">>, STR_SnapCrab, FALSE, 0, 0, 60, 50)
W_progman == OsWindow(STR_ProgramManager, <<"x">>, FALSE, 0, 0, 120, 80)
W_ms == OsWindow(STR_ms \o <<"x">>, <<"x">>, FALSE, 0, 0, 60, 50)
W_tiny == OsWindow(<<"h">>, <<"x">>, FALSE, 30, 30, 5, 5)
W_ten == OsWindow(<<"i">>, <<"x">>, FALSE, 30, 30, 10, 10)
W_narrow == OsWindow(<<"j">>, <<"x">>, FALSE, 30, 30, 10, 30)
W_flat == OsWindow(<<"k">>, <<"x">>, FALSE, 30, 30, 30, 10)

\* The desktop of the annotation sessions: two overlapping windows.
SmallDesktop == {W_small, W_big}
\* The desktop of the picker sessions: every case of the window filter.
FullDesktop ==
    {W_small, W_big, W_tie, W_minimized, W_untitled, W_self_title, W_self_app,
     W_progman, W_ms, W_tiny, W_ten, W_narrow, W_flat}

\* What Window::all() can return: None for Err, or Some(list) for a list of
\* at most MaxWindows distinct windows of the desktop, in any order.
RECURSIVE lists_upto(_, _)
lists_upto(U, n) ==
    IF n = 0 THEN {<<>>}
    ELSE LET shorter == lists_upto(U, n - 1)
         IN  shorter \cup
             {Append(l, w) : l \in {x \in shorter : Len(x) = n - 1},
                             w \in U} 
distinct(l) == \A i, j \in 1..Len(l) : i # j => l[i] # l[j]
Enumerations(U) ==
    {None} \cup {Some(l) : l \in {x \in lists_upto(U, MaxWindows) : distinct(x)}}

\* Pointer positions on the canvas (ui space) and on the overlay (screen).
CanvasPoints ==
    {Pos2(10, 40), Pos2(100, 90), Pos2(10, 41), Pos2(100, 40), Pos2(130, 120)}
DragDeltas == {Vec2(0, 0), Vec2(6, -4)}
SmallScreen == {Pos2(20, 20), Pos2(25, 26), Pos2(60, 24), Pos2(90, 5)}
FullScreen == {Pos2(20, 20), Pos2(35, 35), Pos2(45, 52), Pos2(60, 24), Pos2(90, 5)}
Colors == {"RED", "BLUE"}
Thicknesses == {4, 8}
Chars == {"a"}

\* Sizes of the central panel: large enough for the image at scale 1 or,
\* for an image of even size, exactly half of it.
AvailableSizes(tex) ==
    {BigPanel} \cup
    (IF tex.x > 0 /\ tex.y > 0 /\ tex.x % 2 = 0 /\ tex.y % 2 = 0
     THEN {Vec2(tex.x \div 2, tex.y \div 2)} ELSE {})

Options(S) == {None} \cup {Some(x) : x \in S}

(***************************************************************************)
(* One frame of update                                                     *)
(***************************************************************************)
\* the text prompt is laid out this frame, so its keys are read
prompt_shown(s) == is_some(s.editing_text_pos) /\ is_some(s.image)

\* ui_to_image is computed without rounding: no zero-sized rect, and both
\* quotients exact
exact_ui_to_image(s, ui_pos, rect) ==
    \/ is_none(s.original_image)
    \/ /\ rect_width(rect) > 0 /\ rect_height(rect) > 0
       /\ ((ui_pos.x - rect.min.x) * unwrap(s.original_image).width)
              % rect_width(rect) = 0
       /\ ((ui_pos.y - rect.min.y) * unwrap(s.original_image).height)
              % rect_height(rect) = 0

\* the text prompt commits a non-empty text in a frame that reaches it in
\* state s: its position must be computed without rounding
commit_exact(s, in, rect) ==
    (is_some(s.editing_text_pos) /\ (in.enter \/ in.lost_focus)
        /\ ~str_is_empty(s.temp_text \o in.typed))
    => exact_ui_to_image(s, unwrap(s.editing_text_pos), rect)

panels_exact(s, in) ==
    is_some(s.image) => commit_exact(canvas_pointer(s, in), in, frame_rect(s, in))

text_commit_exact(s, in) ==
    s.state = "Normal" => panels_exact(layers_panel(top_panel(s, in), in), in)

\* egui's drag state after the frame: a drag belongs to the widget that was
\* laid out when the pointer went down, and the drag of a widget that is no
\* longer laid out is forgotten
next_dragging(in, r) ==
    IF in.drag_stopped THEN "None"
    ELSE IF in.drag_started /\ state = "Normal" THEN "Canvas"
    ELSE IF in.drag_started
         THEN (IF r.state = "Normal" THEN "None" ELSE "Overlay")
    ELSE IF dragging = "Overlay" /\ r.state = "Normal" THEN "None"
    ELSE dragging

\* where the pointer went down in the gesture that is under way
next_press_origin(in, r) ==
    IF next_dragging(in, r) = "None" THEN None
    ELSE IF in.drag_started THEN in.interact_pointer_pos
    ELSE press_origin

\* self after the frame is r
Becomes(r, in) ==
    /\ Len(r.annotations) <= MaxAnnotations
    /\ Len(r.temp_text) <= MaxText
    /\ image' = r.image
    /\ original_image' = r.original_image
    /\ annotations' = r.annotations
    /\ current_tool' = r.current_tool
    /\ current_color' = r.current_color
    /\ stroke_thickness' = r.stroke_thickness
    /\ text_size' = r.text_size
    /\ drag_start' = r.drag_start
    /\ active_annotation_index' = r.active_annotation_index
    /\ show_layers' = r.show_layers
    /\ temp_text' = r.temp_text
    /\ editing_text_pos' = r.editing_text_pos
    /\ state' = r.state
    /\ fullscreen_bg' = r.fullscreen_bg
    /\ fullscreen_bg_image' = r.fullscreen_bg_image
    /\ windows' = r.windows
    /\ hovered_window_index' = r.hovered_window_index
    /\ viewport' = r.viewport
    /\ loaded' = r.loaded
    /\ drawn' = r.drawn
    /\ dragging' = next_dragging(in, r)
    /\ press_origin' = next_press_origin(in, r)

Frame(in) ==
    /\ frames < cap
    /\ text_commit_exact(Self, in)
    /\ Becomes(update([Self EXCEPT !.loaded = None, !.drawn = None], in), in)
    /\ panel' = in.avail
    /\ cap' = cap
    /\ frames' = frames + 1
    /\ last' = in
    /\ probe' = probe

\* Enter and focus loss are read by the text prompt in any Normal frame
\* that lays it out; otherwise they are not read.
PromptKeys ==
    IF state = "Normal" /\ prompt_shown(Self)
    THEN {[enter |-> e, lost_focus |-> l] : e \in BOOLEAN, l \in BOOLEAN}
    ELSE {[enter |-> FALSE, lost_focus |-> FALSE]}

\* a frame of state Normal in which the pointer does `in`
NormalFrame(in) ==
    /\ state = "Normal"
    /\ \E k \in PromptKeys :
          Frame([in EXCEPT !.enter = k.enter, !.lost_focus = k.lost_focus])

\* a click on a widget: the pointer is not dragging anything
ClickFrame(in) == dragging = "None" /\ NormalFrame(in)

(***************************************************************************)
(* Actions: one per kind of frame                                          *)
(***************************************************************************)
FullscreenClicked ==
    /\ state = "Normal"
    /\ \E m \in MonitorOutcomes :
           ClickFrame([NoInput EXCEPT !.ev = "FullscreenClicked",
                                      !.button = "Fullscreen", !.monitor = m])

SelectWindowClicked(U) ==
    /\ state = "Normal"
    /\ \E m \in MonitorOutcomes, e \in Enumerations(U) :
           ClickFrame([NoInput EXCEPT !.ev = "SelectWindowClicked",
                                      !.button = "SelectWindow", !.monitor = m,
                                      !.window_all = e])

SelectAreaClicked ==
    /\ state = "Normal"
    /\ \E m \in MonitorOutcomes :
           ClickFrame([NoInput EXCEPT !.ev = "SelectAreaClicked",
                                      !.button = "SelectArea", !.monitor = m])

StartFullscreenClicked ==
    /\ is_none(image)
    /\ \E m \in MonitorOutcomes :
          ClickFrame([NoInput EXCEPT !.ev = "StartFullscreenClicked",
                                     !.start_button = "Fullscreen", !.monitor = m])

StartWindowClicked(U) ==
    /\ is_none(image)
    /\ \E m \in MonitorOutcomes, e \in Enumerations(U) :
          ClickFrame([NoInput EXCEPT !.ev = "StartWindowClicked",
                                     !.start_button = "Window", !.monitor = m,
                                     !.window_all = e])

StartAreaClicked ==
    /\ is_none(image)
    /\ \E m \in MonitorOutcomes :
          ClickFrame([NoInput EXCEPT !.ev = "StartAreaClicked",
                                     !.start_button = "Area", !.monitor = m])

ToolSelected ==
    /\ state = "Normal"
    /\ \E t \in Tool \ {current_tool} :
           /\ t = "Crop" => is_some(image)
           /\ ClickFrame([NoInput EXCEPT !.ev = "ToolSelected", !.tool = Some(t)])

ColorPicked ==
    /\ state = "Normal"
    /\ \E c \in Colors \ {current_color} :
           ClickFrame([NoInput EXCEPT !.ev = "ColorPicked", !.color = Some(c)])

ThicknessSet ==
    /\ state = "Normal"
    /\ \E v \in Thicknesses \ {stroke_thickness} :
           ClickFrame([NoInput EXCEPT !.ev = "ThicknessSet", !.thickness = Some(v)])

LayersToggled ==
    /\ state = "Normal"
    /\ ClickFrame([NoInput EXCEPT !.ev = "LayersToggled", !.button = "Layers"])

SaveClicked ==
    /\ state = "Normal"
    /\ ClickFrame([NoInput EXCEPT !.ev = "SaveClicked", !.button = "Save"])

CopyClicked ==
    /\ state = "Normal"
    /\ ClickFrame([NoInput EXCEPT !.ev = "CopyClicked", !.button = "Copy"])

ClearClicked ==
    /\ state = "Normal"
    /\ ClickFrame([NoInput EXCEPT !.ev = "ClearClicked", !.button = "Clear"])

LayerSelected ==
    /\ show_layers
    /\ \E i \in 0..(Len(annotations) - 1) :
          ClickFrame([NoInput EXCEPT !.ev = "LayerSelected",
                                     !.layer_select = Some(i)])

LayerRemoved ==
    /\ show_layers
    /\ \E i \in 0..(Len(annotations) - 1) :
          ClickFrame([NoInput EXCEPT !.ev = "LayerRemoved",
                                     !.layer_remove = Some(i)])

\* The canvas is laid out, with a texture of positive size (with a zero
\* size the program maps positions to NaN, which the model does not follow).
canvas_shown == is_some(image) /\ unwrap(image).x > 0 /\ unwrap(image).y > 0

\* the central panel: the pointer of a canvas drag is released inside it
central_panel_rect(avail) == Rect_from_min_size(CanvasOrigin, avail)

\* drag_started() comes with dragged(); the press is inside the image rect
CanvasDragStarted ==
    /\ canvas_shown
    /\ \E a \in AvailableSizes(unwrap(image)), pos \in CanvasPoints,
          d \in DragDeltas :
          /\ rect_contains(image_rect(unwrap(image),
                                      scale_to_fit(a, unwrap(image))), pos)
          /\ ClickFrame([NoInput EXCEPT !.ev = "CanvasDragStarted",
                                        !.avail = a, !.drag_started = TRUE,
                                        !.dragged = TRUE,
                                        !.interact_pointer_pos = Some(pos),
                                        !.drag_delta = d])

CanvasDragged ==
    /\ canvas_shown
    /\ dragging = "Canvas"
    /\ \E d \in DragDeltas \ {Vec2(0, 0)} :
          NormalFrame([NoInput EXCEPT !.ev = "CanvasDragged", !.avail = panel,
                                      !.dragged = TRUE, !.drag_delta = d])

CanvasDragStopped ==
    /\ canvas_shown
    /\ dragging = "Canvas"
    /\ \E pos \in Options(CanvasPoints) :
          /\ is_some(pos) => rect_contains(central_panel_rect(panel), unwrap(pos))
          /\ NormalFrame([NoInput EXCEPT !.ev = "CanvasDragStopped",
                                         !.avail = panel,
                                         !.drag_stopped = TRUE,
                                         !.interact_pointer_pos = pos])

\* no pointer event: the frame only types into the text prompt or closes it
KeyboardFrame ==
    /\ state = "Normal"
    /\ prompt_shown(Self)
    /\ \E t \in {<<>>} \cup {<<c>> : c \in Chars}, e \in BOOLEAN, l \in BOOLEAN :
          /\ t # <<>> \/ e \/ l
          /\ Frame([NoInput EXCEPT !.ev = "KeyboardFrame", !.typed = t,
                                   !.enter = e, !.lost_focus = l,
                                   !.avail = IF dragging = "Canvas" THEN panel
                                             ELSE BigPanel])

\* a frame of the picking overlay
PickingFrame(in) == state # "Normal" /\ Frame(in)

PickingHover(P) ==
    /\ state # "Normal"
    /\ \E pos \in Options(P), esc \in BOOLEAN :
           PickingFrame([NoInput EXCEPT !.ev = "PickingHover",
                                        !.pointer_latest_pos = pos, !.escape = esc])

\* response.clicked(): only the PickingWindow arm reads it
PickingClicked(P, U) ==
    /\ state = "PickingWindow"
    /\ dragging = "None"
    /\ \E pos \in Options(P), esc \in BOOLEAN, e \in Enumerations(U),
          ok \in BOOLEAN :
          PickingFrame([NoInput EXCEPT !.ev = "PickingClicked",
                                       !.pointer_latest_pos = pos,
                                       !.interact_pointer_pos = pos,
                                       !.clicked = TRUE, !.escape = esc,
                                       !.window_all = e, !.capture_ok = ok])

\* drag_started(), dragged() without an end, drag_stopped(): only the
\* PickingArea arm reads them
PickingDragStarted(P) ==
    /\ state = "PickingArea"
    /\ dragging = "None"
    /\ \E pos \in Options(P), esc \in BOOLEAN :
          PickingFrame([NoInput EXCEPT !.ev = "PickingDragStarted",
                                       !.pointer_latest_pos = pos,
                                       !.interact_pointer_pos = pos,
                                       !.drag_started = TRUE, !.dragged = TRUE,
                                       !.escape = esc])

PickingDragStopped(P) ==
    /\ state = "PickingArea"
    /\ dragging = "Overlay"
    /\ \E pos \in Options(P), esc \in BOOLEAN :
          PickingFrame([NoInput EXCEPT !.ev = "PickingDragStopped",
                                       !.pointer_latest_pos = pos,
                                       !.interact_pointer_pos = pos,
                                       !.drag_stopped = TRUE, !.escape = esc])

(***************************************************************************)
(* Specifications                                                          *)
(***************************************************************************)
\* the application in state s, before its first explored frame
Start(s, n) ==
    /\ image = s.image
    /\ original_image = s.original_image
    /\ annotations = s.annotations
    /\ current_tool = s.current_tool
    /\ current_color = s.current_color
    /\ stroke_thickness = s.stroke_thickness
    /\ text_size = s.text_size
    /\ drag_start = s.drag_start
    /\ active_annotation_index = s.active_annotation_index
    /\ show_layers = s.show_layers
    /\ temp_text = s.temp_text
    /\ editing_text_pos = s.editing_text_pos
    /\ state = s.state
    /\ fullscreen_bg = s.fullscreen_bg
    /\ fullscreen_bg_image = s.fullscreen_bg_image
    /\ windows = s.windows
    /\ hovered_window_index = s.hovered_window_index
    /\ viewport = s.viewport
    /\ loaded = None
    /\ drawn = None
    /\ dragging = "None"
    /\ press_origin = None
    /\ panel = BigPanel
    /\ frames = 0
    /\ cap = n
    /\ last = NoInput

\* no method is being called on its own
NoProbe == [op |-> "none"]

Init == Start(new, MaxFrames) /\ probe = NoProbe

\* Every frame the program can take, on a desktop of two windows.
Next ==
    \/ FullscreenClicked
    \/ SelectWindowClicked(SmallDesktop)
    \/ SelectAreaClicked
    \/ StartFullscreenClicked
    \/ StartWindowClicked(SmallDesktop)
    \/ StartAreaClicked
    \/ ToolSelected
    \/ ColorPicked
    \/ ThicknessSet
    \/ LayersToggled
    \/ SaveClicked
    \/ CopyClicked
    \/ ClearClicked
    \/ LayerSelected
    \/ LayerRemoved
    \/ CanvasDragStarted
    \/ CanvasDragged
    \/ CanvasDragStopped
    \/ KeyboardFrame
    \/ PickingHover(SmallScreen)
    \/ PickingClicked(SmallScreen, SmallDesktop)
    \/ PickingDragStarted(SmallScreen)
    \/ PickingDragStopped(SmallScreen)

Spec == Init /\ [][Next]_vars

(***************************************************************************)
(* Annotation sessions: the program some frames after construction, with   *)
(* a capture on the canvas.  Each session state is what update leaves      *)
(* after the frames of its script, run from new.                           *)
(***************************************************************************)
RECURSIVE Run(_, _)
Run(s, script) ==
    IF script = <<>> THEN s
    ELSE Run(update([s EXCEPT !.loaded = None, !.drawn = None], Head(script)),
             Tail(script))

F_capture == [NoInput EXCEPT !.start_button = "Fullscreen", !.monitor = "Ok"]
F_tool(t) == [NoInput EXCEPT !.tool = Some(t)]
F_press(pos) ==
    [NoInput EXCEPT !.drag_started = TRUE, !.dragged = TRUE,
                    !.interact_pointer_pos = Some(pos)]
F_release(pos) ==
    [NoInput EXCEPT !.drag_stopped = TRUE, !.interact_pointer_pos = Some(pos)]
F_type(t) == [NoInput EXCEPT !.typed = t]
F_layer(i) == [NoInput EXCEPT !.layer_select = Some(i)]

\* the monitor captured from the start screen
Captured == Run(new, <<F_capture>>)
\* an arrow drawn from image (10,10) to (100,60)
OneArrow == Run(Captured, <<F_press(Pos2(10, 40)), F_release(Pos2(100, 90))>>)
\* then a rectangle drawn over the arrow's end
ArrowRect ==
    Run(OneArrow, <<F_tool("Rect"), F_press(Pos2(100, 40)),
                    F_release(Pos2(130, 120))>>)
\* the same two shapes drawn in the other order
RectArrow ==
    Run(Captured, <<F_tool("Rect"), F_press(Pos2(100, 40)),
                    F_release(Pos2(130, 120)), F_tool("Arrow"),
                    F_press(Pos2(10, 40)), F_release(Pos2(100, 90))>>)
\* the arrow selected in the layers panel
Selected == Run(OneArrow, <<F_layer(0)>>)
\* the text prompt open, with a character typed
Prompt ==
    Run(Captured, <<F_tool("Text"), F_press(Pos2(10, 40)),
                    F_release(Pos2(10, 40)), F_type(<<"a">>)>>)

\* an area pick given up with Escape in the frame the pointer went down
F_select_area == [NoInput EXCEPT !.button = "SelectArea", !.monitor = "Ok"]
F_press_escape(pos) ==
    [NoInput EXCEPT !.drag_started = TRUE, !.dragged = TRUE,
                    !.pointer_latest_pos = Some(pos),
                    !.interact_pointer_pos = Some(pos), !.escape = TRUE]
Abandoned == Run(OneArrow, <<F_select_area, F_press_escape(Pos2(20, 20))>>)

SessionStates ==
    {Captured, OneArrow, ArrowRect, RectArrow, Selected, Prompt, Abandoned}

InitSession ==
    /\ \E s \in SessionStates : Start(s, MaxSessionFrames)
    /\ probe = NoProbe

\* The start screen is never laid out again once an image is loaded.
NextSession ==
    \/ FullscreenClicked
    \/ SelectWindowClicked(SmallDesktop)
    \/ SelectAreaClicked
    \/ ToolSelected
    \/ ColorPicked
    \/ ThicknessSet
    \/ LayersToggled
    \/ SaveClicked
    \/ CopyClicked
    \/ ClearClicked
    \/ LayerSelected
    \/ LayerRemoved
    \/ CanvasDragStarted
    \/ CanvasDragged
    \/ CanvasDragStopped
    \/ KeyboardFrame
    \/ PickingHover(SmallScreen)
    \/ PickingClicked(SmallScreen, SmallDesktop)
    \/ PickingDragStarted(SmallScreen)
    \/ PickingDragStopped(SmallScreen)

SpecSession == InitSession /\ [][NextSession]_vars

(***************************************************************************)
(* Window picker sessions: a fresh program on a desktop that holds every   *)
(* case of the window filter.                                              *)
(***************************************************************************)
InitPicker == Start(new, MaxPickerFrames) /\ probe = NoProbe

NextPicker ==
    \/ StartWindowClicked(FullDesktop)
    \/ PickingHover(FullScreen)
    \/ PickingClicked(FullScreen, SmallDesktop)

SpecPicker == InitPicker /\ [][NextPicker]_vars

(***************************************************************************)
(* Picking sessions at the edge of the monitor: a fresh program on a       *)
(* desktop whose windows reach past the 120x80 monitor or lie beside it,   *)
(* with pointer positions on and off the monitor.  W_resized is W_right    *)
(* after the user resized it: the same title and application name.         *)
(***************************************************************************)
W_left == OsWindow(<<"l">>, <<"x">>, FALSE, -10, -10, 50, 50)
W_right == OsWindow(<<"r">>, <<"x">>, FALSE, 100, 60, 40, 40)
W_off == OsWindow(<<"o">>, <<"x">>, FALSE, 120, 10, 20, 20)
W_resized == OsWindow(<<"r">>, <<"x">>, FALSE, 100, 60, 30, 30)

EdgeDesktop == {W_left, W_right, W_off}
EdgeScreen ==
    {Pos2(-10, -10), Pos2(5, 5), Pos2(110, 70), Pos2(120, 20), Pos2(130, 90)}

InitEdge == Start(new, MaxEdgeFrames) /\ probe = NoProbe

NextEdge ==
    \/ StartWindowClicked(EdgeDesktop)
    \/ StartAreaClicked
    \/ PickingHover(EdgeScreen)
    \/ PickingClicked(EdgeScreen, EdgeDesktop \cup {W_resized})
    \/ PickingDragStarted(EdgeScreen)
    \/ PickingDragStopped(EdgeScreen)

SpecEdge == InitEdge /\ [][NextEdge]_vars

(***************************************************************************)
(* Methods called on their own: Annotation::translate, ui_to_image,        *)
(* image_to_ui and Annotation::hit_test, each applied to arguments drawn   *)
(* from the sets below.  The application is freshly constructed and runs   *)
(* no frame.                                                               *)
(***************************************************************************)
app_vars ==
    <<image, original_image, annotations, current_tool, current_color,
      stroke_thickness, text_size, drag_start, active_annotation_index,
      show_layers, temp_text, editing_text_pos, state, fullscreen_bg,
      fullscreen_bg_image, windows, hovered_window_index,
      viewport, loaded, drawn, dragging, press_origin, panel, frames, cap,
      last>>

\* annotations to translate: two of each variant, with even and odd
\* coordinates
TranslateAnnotations ==
    {Arrow(Pos2(10, 10), Pos2(100, 60), "RED", 4),
     Arrow(Pos2(1, 0), Pos2(0, 1), "BLUE", 8),
     Rectangle(Rect_from_two_pos(Pos2(100, 10), Pos2(130, 90)), "RED", 4),
     Rectangle(Rect_from_two_pos(Pos2(1, 1), Pos2(3, 3)), "BLUE", 8),
     Text(Pos2(10, 10), <<"a">>, "RED", 24),
     Text(Pos2(1, 1), <<"a", "a">>, "BLUE", 24)}

\* deltas: a few pixels, and the first power of two at which an f32 no
\* longer holds every integer
TranslateDeltas ==
    {Vec2(0, 0), Vec2(6, -4), Vec2(-12, 8), Vec2(2^23, -(2^23)),
     Vec2(2^24, 0), Vec2(0, -(2^24)), Vec2(2^24, 2^24)}

TranslateProbes ==
    {[op |-> "translate", ann |-> a, d |-> d, step |-> 0, cur |-> a] :
        a \in TranslateAnnotations, d \in TranslateDeltas}

\* images of the coordinate mapping: none, a monitor capture, a smaller
\* crop, and the crops of a vertical and of a horizontal Crop drag (width
\* or height 0)
MapImages ==
    {None, Some(MonitorImage), Some(RgbaImage("monitor", 10, 10, 60, 40)),
     Some(RgbaImage("monitor", 10, 10, 0, 50)),
     Some(RgbaImage("monitor", 10, 10, 50, 0))}

\* display rects of positive size
MapRects ==
    {Rect_from_min_size(CanvasOrigin, Vec2(120, 80)),
     Rect_from_min_size(CanvasOrigin, Vec2(60, 40)),
     Rect_from_min_size(Pos2(10, 20), Vec2(30, 20))}

\* points of a rect: its corners, its centre and points at a third, a
\* fifth and a half of its sides
MapPoints(r) ==
    {Pos2(r.min.x + dx, r.min.y + dy) :
        dx \in {0, rect_width(r) \div 3, rect_width(r) \div 2, rect_width(r)},
        dy \in {0, rect_height(r) \div 5, rect_height(r) \div 2, rect_height(r)}}

\* the application with the image o loaded
with_original(o) == [new EXCEPT !.original_image = o]

\* the points are those ui_to_image maps without rounding
MapProbes ==
    {[op |-> "map", original |-> pr[1], rect |-> pr[2], p |-> pr[3],
      step |-> 0, img |-> pr[3], back |-> pr[3]] :
        pr \in {t \in UNION {{<<o, r, p>> : p \in MapPoints(r)} :
                              o \in MapImages, r \in MapRects} :
                   exact_ui_to_image(with_original(t[1]), t[3], t[2])}}

\* annotations to hit: a horizontal arrow, a slanted arrow of length 10,
\* arrows of length 0 and 1, a small and a large rectangle, a text
HitAnnotations ==
    {Arrow(Pos2(0, 0), Pos2(10, 0), "RED", 4),
     Arrow(Pos2(0, 0), Pos2(6, 8), "RED", 4),
     Arrow(Pos2(3, 4), Pos2(3, 4), "RED", 4),
     Arrow(Pos2(5, 5), Pos2(6, 5), "RED", 4),
     Rectangle(Rect_from_two_pos(Pos2(2, 2), Pos2(8, 6)), "RED", 4),
     Rectangle(Rect_from_two_pos(Pos2(0, 0), Pos2(30, 30)), "RED", 4),
     Text(Pos2(2, 2), <<"a">>, "RED", 5)}

HitPoints == {Pos2(x, y) : x \in -3..13, y \in -3..8}
HitThresholds == {0, 2, 5}

HitProbes ==
    {[op |-> "hit", ann |-> a, p |-> p, threshold |-> t, step |-> 0,
      hit |-> FALSE] :
        a \in HitAnnotations, p \in HitPoints, t \in HitThresholds}

\* ann.translate(delta)
TranslateBy ==
    /\ probe.op = "translate"
    /\ probe.step = 0
    /\ probe' = [probe EXCEPT !.cur = translate(@, probe.d), !.step = 1]
    /\ UNCHANGED app_vars

\* ann.translate(-delta)
TranslateBack ==
    /\ probe.op = "translate"
    /\ probe.step = 1
    /\ probe' = [probe EXCEPT !.cur = translate(@, vec_neg(probe.d)), !.step = 2]
    /\ UNCHANGED app_vars

\* self.ui_to_image(p, rect)
UiToImage ==
    /\ probe.op = "map"
    /\ probe.step = 0
    /\ probe' = [probe EXCEPT
                    !.img = ui_to_image(with_original(probe.original), probe.p,
                                        probe.rect),
                    !.step = 1]
    /\ UNCHANGED app_vars

\* self.image_to_ui(img, rect)
ImageToUi ==
    /\ probe.op = "map"
    /\ probe.step = 1
    /\ probe' = [probe EXCEPT
                    !.back = image_to_ui(with_original(probe.original), probe.img,
                                         probe.rect),
                    !.step = 2]
    /\ UNCHANGED app_vars

\* ann.hit_test(p, threshold)
HitTest ==
    /\ probe.op = "hit"
    /\ probe.step = 0
    /\ probe' = [probe EXCEPT
                    !.hit = hit_test(probe.ann, probe.p, probe.threshold),
                    !.step = 1]
    /\ UNCHANGED app_vars

InitCalls ==
    /\ Start(new, 0)
    /\ probe \in TranslateProbes \cup MapProbes \cup HitProbes

NextCalls ==
    \/ TranslateBy
    \/ TranslateBack
    \/ UiToImage
    \/ ImageToUi
    \/ HitTest

SpecCalls == InitCalls /\ [][NextCalls]_vars

(***************************************************************************)
(* Properties                                                              *)
(***************************************************************************)
\* the annotation list as the handlers of the latest frame left it, the
\* text prompt apart
AfterHandlers == IF is_some(drawn) THEN unwrap(drawn) ELSE annotations

InPicking == state \in {"PickingWindow", "PickingArea"}

Abs(n) == IF n < 0 THEN -n ELSE n

\* C1: every frame that installs an image (load_captured_image ran, from
\* the Fullscreen buttons, a window pick, an area pick or a canvas Crop)
\* ends with the texture and the pixel buffer being those of the installed
\* image as a whole, and the install leaves the annotation list empty,
\* whatever it held before: it is empty when load_captured_image returns
\* and still empty when the handlers that installed the image are done.
C1_InstallReplacesAndClears ==
    [][is_some(loaded') =>
          /\ image' = Some(load_texture(unwrap(loaded').given))
          /\ original_image' = Some(unwrap(loaded').given)
          /\ unwrap(loaded').annotations = <<>>
          /\ AfterHandlers' = <<>>]_vars

\* C1, reached: a canvas Crop installed an image over a session that held
\* annotations.
C1_Witness ==
    /\ is_some(loaded)
    /\ last.ev = "CanvasDragStopped"
    /\ Len(unwrap(loaded).before) > 0
    /\ annotations = <<>>

\* C2: the state is always one of Normal, PickingWindow, PickingArea; it is
\* Normal after construction; and a frame that changes it goes from Normal
\* to a picking state or from a picking state to Normal, never from one
\* picking state to the other.
C2_StateMachine ==
    /\ state = "Normal"
    /\ [](state \in {"Normal", "PickingWindow", "PickingArea"})
    /\ [][state' # state => (state = "Normal" \/ state' = "Normal")]_vars

\* C2, reached: the area picker was entered and left by a drag release.
C2_Witness ==
    /\ state = "Normal"
    /\ last.ev = "PickingDragStopped"
    /\ frames = 3

\* C3 as claimed: a picking frame in which Escape is pressed ends in Normal
\* with the image and the annotation list as they were before the frame.
C3_EscapeNeverCaptures ==
    [][(InPicking /\ last'.escape) =>
          /\ state' = "Normal"
          /\ image' = image
          /\ original_image' = original_image
          /\ annotations' = annotations]_vars

\* C3 as amended: a picking frame in which Escape is pressed ends in
\* Normal; the image and the annotation list are as they were before the
\* frame unless the same frame carries a click (PickingWindow) or a drag
\* release (PickingArea), which is handled before the key is read.
C3_EscapeExits ==
    [][(InPicking /\ last'.escape) =>
          /\ state' = "Normal"
          /\ (~last'.clicked /\ ~last'.drag_stopped) =>
                /\ loaded' = None
                /\ image' = image
                /\ original_image' = original_image
                /\ annotations' = annotations]_vars

\* C3, reached: Escape left a picker over a session with annotations, in a
\* frame without click or release.
C3_Witness ==
    /\ state = "Normal"
    /\ last.escape /\ ~last.clicked /\ ~last.drag_stopped
    /\ last.ev = "PickingHover"
    /\ Len(annotations) > 0

\* C4: a PickingWindow frame with a click ends in Normal, whether a window
\* is hovered or not and whatever the capture produced.
C4_ClickExits ==
    [][(state = "PickingWindow" /\ last'.clicked) => state' = "Normal"]_vars

\* C4, reached: a click with no candidate under the pointer left the
\* picker without an image being loaded.
C4_Witness ==
    /\ state = "Normal"
    /\ last.ev = "PickingClicked"
    /\ hovered_window_index = None
    /\ loaded = None

\* C5: a PickingArea frame with a drag release ends in Normal; if the
\* dragged rectangle is not more than 5 pixels wide and more than 5 pixels
\* high, nothing is loaded and the image and the annotation list are
\* unchanged.
C5_SmallAreaLoadsNothing ==
    [][(state = "PickingArea" /\ last'.drag_stopped) =>
          /\ state' = "Normal"
          /\ (/\ is_some(drag_start)
              /\ is_some(last'.interact_pointer_pos)
              /\ ~(/\ Abs(unwrap(last'.interact_pointer_pos).x
                           - unwrap(drag_start).x) > 5
                   /\ Abs(unwrap(last'.interact_pointer_pos).y
                           - unwrap(drag_start).y) > 5)) =>
                /\ loaded' = None
                /\ image' = image
                /\ original_image' = original_image
                /\ annotations' = annotations]_vars

\* C5, reached: a release of a 5 by 6 rectangle left the area picker over a
\* session with annotations, and nothing was loaded.
C5_Witness ==
    /\ state = "Normal"
    /\ last.ev = "PickingDragStopped"
    /\ last.interact_pointer_pos = Some(Pos2(25, 26))
    /\ loaded = None
    /\ Len(annotations) > 0
    /\ frames = 3

\* the windows of the enumeration read by the latest frame
Enumerated(in) ==
    IF in.window_all = <<>> THEN {}
    ELSE {in.window_all[1][i] : i \in 1..Len(in.window_all[1])}

\* the conditions of C6 on a window, but for the size
ListableTitle(w) ==
    /\ ~w.minimized
    /\ w.title # <<>>
    /\ w.title # <<"S", "n", "a", "p", "C", "r", "a", "b">>
    /\ w.title # <<"P", "r", "o", "g", "r", "a", "m", " ",
                   "M", "a", "n", "a", "g", "e", "r">>
    /\ ~(Len(w.title) >= 3 /\ SubSeq(w.title, 1, 3) = <<"m", "s", "-">>)
    /\ w.app_name # <<"S", "n", "a", "p", "C", "r", "a", "b">>

AtLeast10(w) == ListableTitle(w) /\ w.width >= 10 /\ w.height >= 10
Over10(w) == ListableTitle(w) /\ w.width > 10 /\ w.height > 10

\* the frame entered PickingWindow with exactly the enumerated windows that
\* satisfy Listable as candidates
ListedExactly(Listable(_)) ==
    (state = "Normal" /\ state' = "PickingWindow") =>
        /\ {windows'[i] : i \in 1..Len(windows')}
              = {window_info(w) : w \in {e \in Enumerated(last') : Listable(e)}}
        /\ Len(windows')
              = Cardinality({e \in Enumerated(last') : Listable(e)})

\* C6 as claimed: after entering PickingWindow the candidates are exactly
\* the enumerated windows that are not minimized, have a listable title and
\* application name, and are at least 10 wide and 10 high.
C6_ListedFrom10 == [][ListedExactly(AtLeast10)]_vars

\* C6 as amended: after entering PickingWindow the candidates are exactly
\* the enumerated windows that are not minimized, have a non-empty title
\* that is not "SnapCrab", not "Program Manager" and does not start with
\* "ms-", have an application name other than "SnapCrab", and are more
\* than 10 wide and more than 10 high; no candidate has an empty title or
\* the size 5x5.
C6_ListedOver10 ==
    [][/\ ListedExactly(Over10)
       /\ \A i \in 1..Len(windows') :
             /\ windows'[i].title # <<>>
             /\ ~(/\ windows'[i].rect.max.x - windows'[i].rect.min.x = 5
                  /\ windows'[i].rect.max.y - windows'[i].rect.min.y = 5)]_vars

\* C6, reached: the picker was entered on a 10x10 window and a 20x20
\* window, and lists the second only.
C6_Witness ==
    /\ state = "PickingWindow"
    /\ last.window_all = Some(<<W_ten, W_small>>)
    /\ windows = <<window_info(W_small)>>

\* the pointer as the overlay reads it
PointerOf(in) ==
    IF in.pointer_latest_pos = <<>> THEN [x |-> 0, y |-> 0]
    ELSE in.pointer_latest_pos[1]

Holds(info, p) ==
    /\ info.rect.min.x <= p.x /\ p.x <= info.rect.max.x
    /\ info.rect.min.y <= p.y /\ p.y <= info.rect.max.y

AreaOf(info) ==
    (info.rect.max.x - info.rect.min.x) * (info.rect.max.y - info.rect.min.y)

\* the candidates under the pointer p
Under(p) == {i \in 1..Len(windows) : Holds(windows[i], p)}

\* C7: the candidate list of an entered picker is sorted by non-decreasing
\* area, and in every PickingWindow frame the hovered window is none if no
\* candidate contains the pointer and otherwise the first candidate of the
\* list that contains it, of minimum area among those that contain it.
C7_HoverSmallest ==
    [][/\ (state = "Normal" /\ state' = "PickingWindow") =>
             \A i, j \in 1..Len(windows') :
                 i < j => AreaOf(windows'[i]) <= AreaOf(windows'[j])
       /\ state = "PickingWindow" =>
             IF Under(PointerOf(last')) = {}
             THEN hovered_window_index' = None
             ELSE \E i \in Under(PointerOf(last')) :
                     /\ hovered_window_index' = Some(i - 1)
                     /\ \A j \in Under(PointerOf(last')) :
                           /\ i <= j
                           /\ AreaOf(windows[i]) <= AreaOf(windows[j])]_vars

\* C7, reached: the pointer is over the small and the big window, which
\* were enumerated big first, and the small one is hovered.
C7_Witness ==
    /\ state = "PickingWindow"
    /\ last.ev = "PickingHover"
    /\ last.pointer_latest_pos = Some(Pos2(20, 20))
    /\ windows = <<window_info(W_small), window_info(W_big)>>
    /\ hovered_window_index = Some(0)

\* the annotations that accept the point of a canvas press, in image space
HitBy(in) ==
    {i \in 1..Len(annotations) :
        hit_test(annotations[i],
                 ui_to_image(Self, unwrap(in.interact_pointer_pos),
                             frame_rect(Self, in)),
                 div_scale(10, scale_to_fit(in.avail, unwrap(image))))}

\* C8: a canvas drag start with a tool other than Crop selects the
\* annotation of highest index among those whose hit_test accepts the press
\* point, and selects none if no annotation accepts it.
C8_TopmostSelected ==
    [][(last'.ev = "CanvasDragStarted" /\ current_tool # "Crop") =>
          IF HitBy(last') = {}
          THEN active_annotation_index' = None
          ELSE \E i \in HitBy(last') :
                  /\ active_annotation_index' = Some(i - 1)
                  /\ \A j \in HitBy(last') : j <= i]_vars

\* C8, reached: a press on a point that both annotations of the list
\* accept selected the later-created one.
C8_Witness ==
    /\ last.ev = "CanvasDragStarted"
    /\ last.drag_delta = Vec2(0, 0)
    /\ Len(annotations) = 2
    /\ HitBy(last) = {1, 2}
    /\ active_annotation_index = Some(1)

\* the ends of the drag released by input in, in image space
DragFrom == ui_to_image(Self, unwrap(drag_start), frame_rect(Self, last'))
DragTo ==
    ui_to_image(Self, unwrap(last'.interact_pointer_pos), frame_rect(Self, last'))

\* the shape the tool draws between two points
ShapeOf(tool, a, b, color, thickness) ==
    IF tool = "Arrow"
    THEN [kind |-> "Arrow", start |-> a, end |-> b, color |-> color,
          thickness |-> thickness]
    ELSE [kind |-> "Rect",
          rect |-> [min |-> [x |-> IF a.x <= b.x THEN a.x ELSE b.x,
                             y |-> IF a.y <= b.y THEN a.y ELSE b.y],
                    max |-> [x |-> IF a.x <= b.x THEN b.x ELSE a.x,
                             y |-> IF a.y <= b.y THEN b.y ELSE a.y]],
          color |-> color, thickness |-> thickness]

\* C9: the release of a new-shape canvas drag with tool Arrow or Rect
\* appends exactly one annotation of that kind at the end of the list if
\* its two ends are more than 1.0 apart in image space, and nothing
\* otherwise; a Rect holds the componentwise min and max of the two ends,
\* so that (10,10)->(100,60) on an empty list gives one Rectangle with min
\* (10,10) and max (100,60).
C9_ReleaseAppendsOne ==
    [][(/\ last'.ev = "CanvasDragStopped"
        /\ is_some(drag_start)
        /\ is_some(last'.interact_pointer_pos)
        /\ current_tool \in {"Arrow", "Rect"}) =>
          /\ AfterHandlers' =
                IF (DragTo.x - DragFrom.x) * (DragTo.x - DragFrom.x)
                      + (DragTo.y - DragFrom.y) * (DragTo.y - DragFrom.y) > 1
                THEN Append(annotations,
                            ShapeOf(current_tool, DragFrom, DragTo,
                                    current_color, stroke_thickness))
                ELSE annotations
          /\ (/\ current_tool = "Rect" /\ annotations = <<>>
              /\ DragFrom = [x |-> 10, y |-> 10]
              /\ DragTo = [x |-> 100, y |-> 60]) =>
                /\ Len(AfterHandlers') = 1
                /\ AfterHandlers'[1].kind = "Rect"
                /\ AfterHandlers'[1].rect.min = [x |-> 10, y |-> 10]
                /\ AfterHandlers'[1].rect.max = [x |-> 100, y |-> 60]]_vars

\* C9, reached: the drag (10,10)->(100,60) with tool Rect on an empty list
\* was released.
C9_Witness ==
    /\ last.ev = "CanvasDragStopped"
    /\ current_tool = "Rect"
    /\ Len(annotations) = 1
    /\ annotations[1].kind = "Rect"
    /\ annotations[1].rect = [min |-> [x |-> 10, y |-> 10],
                              max |-> [x |-> 100, y |-> 60]]
    /\ frames = 3

\* the ends of the gesture released by the latest frame, in image space
GestureFrom == ui_to_image(Self, unwrap(press_origin), frame_rect(Self, last'))

\* C10 as claimed: with tool Crop and an image loaded, the release of a
\* canvas drag longer than 1.0 in image space installs the crop of the
\* current image to the dragged rectangle, leaves the annotation list empty
\* and resets the tool to Arrow.
C10_CropDragCrops ==
    [][(/\ last'.ev = "CanvasDragStopped"
        /\ current_tool = "Crop"
        /\ is_some(image)
        /\ is_some(press_origin)
        /\ is_some(last'.interact_pointer_pos)
        /\ (DragTo.x - GestureFrom.x) * (DragTo.x - GestureFrom.x)
              + (DragTo.y - GestureFrom.y) * (DragTo.y - GestureFrom.y) > 1) =>
          /\ is_some(loaded')
          /\ unwrap(loaded').given =
                crop_imm(unwrap(original_image),
                         Min(GestureFrom.x, DragTo.x), Min(GestureFrom.y, DragTo.y),
                         Abs(DragTo.x - GestureFrom.x), Abs(DragTo.y - GestureFrom.y))
          /\ image' = Some(load_texture(unwrap(loaded').given))
          /\ AfterHandlers' = <<>>
          /\ current_tool' = "Arrow"]_vars

\* C10 where no annotation is selected when the drag starts (the case the
\* code handles): kept to tell the failing runs from the others.
C10_CropDragCropsUnselected ==
    [][(/\ last'.ev = "CanvasDragStopped"
        /\ current_tool = "Crop"
        /\ is_some(image)
        /\ is_some(press_origin)
        /\ is_some(last'.interact_pointer_pos)
        /\ drag_start = press_origin
        /\ (DragTo.x - GestureFrom.x) * (DragTo.x - GestureFrom.x)
              + (DragTo.y - GestureFrom.y) * (DragTo.y - GestureFrom.y) > 1) =>
          /\ is_some(loaded')
          /\ unwrap(loaded').given =
                crop_imm(unwrap(original_image),
                         Min(GestureFrom.x, DragTo.x), Min(GestureFrom.y, DragTo.y),
                         Abs(DragTo.x - GestureFrom.x), Abs(DragTo.y - GestureFrom.y))
          /\ image' = Some(load_texture(unwrap(loaded').given))
          /\ AfterHandlers' = <<>>
          /\ current_tool' = "Arrow"]_vars

\* the number of Text annotations of a list
TextCount(list) == Cardinality({i \in 1..Len(list) : list[i].kind = "Text"})

\* the text prompt is laid out in the frame and reads Enter or a focus loss
PromptTrigger ==
    /\ state = "Normal"
    /\ is_some(image)
    /\ is_some(editing_text_pos)
    /\ (last'.enter \/ last'.lost_focus)

\* C11: the canvas handlers, a drag release with tool Text included, never
\* add a Text annotation.  The list grows after them only when the open
\* text prompt loses focus or Enter is pressed with a non-empty string, and
\* then by one Text holding that string.  On that trigger the prompt is
\* closed whether or not a Text was appended, and an empty string appends
\* nothing.
C11_TextOnlyFromPrompt ==
    [][/\ TextCount(AfterHandlers') <= TextCount(annotations)
       /\ annotations' # AfterHandlers' =>
             /\ PromptTrigger
             /\ temp_text' # <<>>
             /\ Len(annotations') = Len(AfterHandlers') + 1
             /\ SubSeq(annotations', 1, Len(AfterHandlers')) = AfterHandlers'
             /\ annotations'[Len(annotations')].kind = "Text"
             /\ annotations'[Len(annotations')].text = temp_text'
       /\ PromptTrigger =>
             /\ editing_text_pos' = None
             /\ temp_text' = <<>> => annotations' = AfterHandlers'
             /\ temp_text' # <<>> => annotations' # AfterHandlers'
       /\ (last'.ev = "CanvasDragStopped" /\ current_tool = "Text") =>
             AfterHandlers' = annotations]_vars

\* C11, reached: Enter closed a prompt that held "a" and appended the Text.
C11_Witness ==
    /\ last.enter
    /\ editing_text_pos = None
    /\ Len(annotations) > 0
    /\ annotations[Len(annotations)].kind = "Text"
    /\ annotations[Len(annotations)].text = <<"a">>

\* C11, reached: Enter closed an empty prompt and nothing was appended.
C11_EmptyClosed ==
    /\ last.enter
    /\ editing_text_pos = None
    /\ temp_text = <<>>
    /\ current_tool = "Text"
    /\ annotations = <<>>

\* the geometry fields of an annotation, and the others
Geometry(a) ==
    CASE a.kind = "Arrow" -> <<a.start, a.end>>
      [] a.kind = "Rect" -> <<a.rect.min, a.rect.max>>
      [] a.kind = "Text" -> <<a.pos>>

Attributes(a) ==
    CASE a.kind = "Arrow" -> <<a.kind, a.color, a.thickness>>
      [] a.kind = "Rect" -> <<a.kind, a.color, a.thickness>>
      [] a.kind = "Text" -> <<a.kind, a.color, a.size, a.text>>

\* translate left everything but the geometry as it was
OnlyGeometryMoved ==
    probe.op = "translate" => Attributes(probe.cur) = Attributes(probe.ann)

\* C12 as claimed: for every annotation and every delta d, translate(d)
\* and then translate(-d) restore the geometry, and translate changes
\* nothing but the geometry.
C12_TranslateRoundTrip ==
    /\ OnlyGeometryMoved
    /\ (probe.op = "translate" /\ probe.step = 2) =>
          Geometry(probe.cur) = Geometry(probe.ann)

\* every coordinate of the annotation and of the delta is an integer of at
\* most 2^23 in magnitude, so that every sum is below 2^24
SmallEnough(v) == -(2^23) <= v /\ v <= 2^23
ExactlyAddable ==
    /\ \A i \in 1..Len(Geometry(probe.ann)) :
          /\ SmallEnough(Geometry(probe.ann)[i].x)
          /\ SmallEnough(Geometry(probe.ann)[i].y)
    /\ SmallEnough(probe.d.x)
    /\ SmallEnough(probe.d.y)

\* C12 as amended: translate changes nothing but the geometry; when the
\* coordinates and the delta are small enough for the f32 sums to be exact,
\* translate(d) adds d to every geometry field and translate(-d) after it
\* restores the geometry.
C12_TranslateRoundTripExact ==
    /\ OnlyGeometryMoved
    /\ (probe.op = "translate" /\ probe.step = 1 /\ ExactlyAddable) =>
          \A i \in 1..Len(Geometry(probe.ann)) :
              /\ Geometry(probe.cur)[i].x = Geometry(probe.ann)[i].x + probe.d.x
              /\ Geometry(probe.cur)[i].y = Geometry(probe.ann)[i].y + probe.d.y
    /\ (probe.op = "translate" /\ probe.step = 2 /\ ExactlyAddable) =>
          Geometry(probe.cur) = Geometry(probe.ann)

\* C12, reached: a rectangle was moved by (6,-4) and back.
C12_Witness ==
    /\ probe.op = "translate"
    /\ probe.step = 2
    /\ probe.ann.kind = "Rect"
    /\ probe.d = Vec2(6, -4)
    /\ probe.cur = probe.ann

\* the image of the mapping has a positive width and height
PositiveImage(o) == o # <<>> /\ o[1].width > 0 /\ o[1].height > 0

\* with no image loaded both mappings return their input
IdentityWithoutImage ==
    (probe.op = "map" /\ probe.original = <<>>) =>
        /\ probe.img = probe.p
        /\ probe.back = probe.p

SegmentNear(a, b, p, t) ==
    LET vx == b.x - a.x
        vy == b.y - a.y
        wx == p.x - a.x
        wy == p.y - a.y
    IN  IF vx * vx + vy * vy < 1
        THEN wx * wx + wy * wy < t * t
        ELSE IF wx * vx + wy * vy <= 0
        THEN wx * wx + wy * wy < t * t
        ELSE IF wx * vx + wy * vy >= vx * vx + vy * vy
        THEN (p.x - b.x) * (p.x - b.x) + (p.y - b.y) * (p.y - b.y) < t * t
        ELSE (wx * vy - wy * vx) * (wx * vy - wy * vx)
                 < t * t * (vx * vx + vy * vy)

\* C14: hit_test of an Arrow is true exactly when p is less than the
\* threshold away from the closest point of the segment start-end, a
\* segment of squared length below 1 being taken as its start; for the
\* segment (0,0)-(10,0) and threshold 2, (5,1) hits and (5,5) does not.
C14_ArrowHit ==
    (probe.op = "hit" /\ probe.step = 1 /\ probe.ann.kind = "Arrow") =>
        /\ probe.hit = SegmentNear(probe.ann.start, probe.ann.end, probe.p,
                                   probe.threshold)
        /\ (/\ probe.ann.start = [x |-> 0, y |-> 0]
            /\ probe.ann.end = [x |-> 10, y |-> 0]
            /\ probe.threshold = 2) =>
              /\ probe.p = [x |-> 5, y |-> 1] => probe.hit
              /\ probe.p = [x |-> 5, y |-> 5] => ~probe.hit

\* C14, reached: (5,1) was tested against the arrow (0,0)-(10,0) with
\* threshold 2 and hit.
C14_Witness ==
    /\ probe.op = "hit"
    /\ probe.step = 1
    /\ probe.ann.kind = "Arrow"
    /\ probe.ann.start = [x |-> 0, y |-> 0]
    /\ probe.ann.end = [x |-> 10, y |-> 0]
    /\ probe.threshold = 2
    /\ probe.p = [x |-> 5, y |-> 1]
    /\ probe.hit

\* p is strictly inside r, and p is outside r grown by t on every side
StrictlyInside(r, p) ==
    /\ r.min.x < p.x /\ p.x < r.max.x
    /\ r.min.y < p.y /\ p.y < r.max.y
OutsideGrown(r, p, t) ==
    \/ p.x < r.min.x - t \/ p.x > r.max.x + t
    \/ p.y < r.min.y - t \/ p.y > r.max.y + t

\* C15: with a positive threshold, hit_test of a Rectangle is true for
\* every point strictly inside the rectangle, however far from the border,
\* and false for every point outside the rectangle expanded by the
\* threshold.
C15_RectHit ==
    (/\ probe.op = "hit" /\ probe.step = 1 /\ probe.ann.kind = "Rect"
     /\ probe.threshold > 0) =>
        /\ StrictlyInside(probe.ann.rect, probe.p) => probe.hit
        /\ OutsideGrown(probe.ann.rect, probe.p, probe.threshold) => ~probe.hit

\* C15, reached: a point of the large rectangle more than the threshold
\* away from its border was tested and hit.
C15_Witness ==
    /\ probe.op = "hit"
    /\ probe.step = 1
    /\ probe.ann.kind = "Rect"
    /\ probe.ann.rect = [min |-> [x |-> 0, y |-> 0], max |-> [x |-> 30, y |-> 30]]
    /\ probe.threshold = 2
    /\ probe.p = [x |-> 10, y |-> 5]
    /\ probe.hit

\* C15, reached: a point outside the expanded small rectangle was tested
\* and missed.
C15_Missed ==
    /\ probe.op = "hit"
    /\ probe.step = 1
    /\ probe.ann.kind = "Rect"
    /\ probe.threshold = 2
    /\ OutsideGrown(probe.ann.rect, probe.p, 2)
    /\ ~probe.hit

\* the candidate the frame's click fell on (the hover is computed in the
\* frame, from the candidates the frame found)
Clicked == windows[hovered_window_index'[1] + 1]

\* the live capture of the clicked candidate succeeds: the windows can be
\* listed, one of them has its title and application name, and that
\* window's capture succeeds
LiveCaptured(in) ==
    /\ in.window_all # <<>>
    /\ in.capture_ok
    /\ \E i \in 1..Len(in.window_all[1]) :
          /\ in.window_all[1][i].title = Clicked.title
          /\ in.window_all[1][i].app_name = Clicked.app_name

\* the region of the frozen background bg cut out for rect r
CropX(r) == IF r.min.x > 0 THEN r.min.x ELSE 0
CropY(r) == IF r.min.y > 0 THEN r.min.y ELSE 0
CropW(r, bg) ==
    LET room == IF bg.width > CropX(r) THEN bg.width - CropX(r) ELSE 0
        wide == r.max.x - r.min.x
    IN  IF wide < room THEN wide ELSE room
CropH(r, bg) ==
    LET room == IF bg.height > CropY(r) THEN bg.height - CropY(r) ELSE 0
        high == r.max.y - r.min.y
    IN  IF high < room THEN high ELSE room

\* the fallback has something to load: a background snapshot exists and
\* its region for r is not empty
FallbackAvailable(r) ==
    /\ fullscreen_bg_image # <<>>
    /\ CropW(r, fullscreen_bg_image[1]) > 0
    /\ CropH(r, fullscreen_bg_image[1]) > 0

\* the frame left the session as it found it (the text prompt apart)
SessionKept ==
    /\ loaded' = None
    /\ image' = image
    /\ original_image' = original_image
    /\ AfterHandlers' = annotations

\* C16: a Fullscreen click whose monitor enumeration or capture fails, and
\* a window pick in which neither the live capture nor the background
\* fallback is available, leave the active image and the annotation list
\* as they were, and the application in state Normal.
C16_FailedCaptureKeepsSession ==
    [][/\ (/\ state = "Normal"
           /\ (last'.button = "Fullscreen" \/ last'.start_button = "Fullscreen")
           /\ last'.monitor = "CaptureErr") =>
              (SessionKept /\ state' = "Normal")
       /\ (/\ state = "PickingWindow"
           /\ last'.clicked
           /\ hovered_window_index' # <<>>
           /\ ~LiveCaptured(last')
           /\ ~FallbackAvailable(Clicked.rect)) =>
              (SessionKept /\ state' = "Normal")]_vars

\* C16, reached: a click on a candidate whose live capture failed, in a
\* picker that had no background snapshot, over a session with annotations.
C16_Witness ==
    /\ state = "Normal"
    /\ last.ev = "PickingClicked"
    /\ hovered_window_index # <<>>
    /\ ~last.capture_ok
    /\ loaded = None
    /\ image # <<>>
    /\ Len(annotations) > 0

\* C16, reached: the Fullscreen button was clicked, the capture failed, and
\* the session kept its image and annotations.
C16_FullscreenFailed ==
    /\ state = "Normal"
    /\ last.ev = "FullscreenClicked"
    /\ last.monitor = "CaptureErr"
    /\ image # <<>>
    /\ Len(annotations) > 0

\* a canvas drag is under way that started on an annotation: the press
\* selected it (with a tool other than Crop the selection is the hit)
DragOfSelected ==
    /\ dragging = "Canvas"
    /\ current_tool # "Crop"
    /\ active_annotation_index # <<>>
    /\ last'.ev \in {"CanvasDragged", "CanvasDragStopped"}

\* C17 as claimed: a canvas drag that starts on an existing annotation with
\* a tool other than Crop selects it and begins no new shape: no frame of
\* the drag, from its start to its release, changes the number of
\* annotations.
C17_DragOfSelectedKeepsCount ==
    [][/\ (/\ last'.ev = "CanvasDragStarted"
           /\ current_tool # "Crop"
           /\ HitBy(last') # {}) =>
              /\ active_annotation_index' # <<>>
              /\ Len(AfterHandlers') = Len(annotations)
       /\ DragOfSelected => Len(AfterHandlers') = Len(annotations)]_vars

\* the first listed window with the clicked candidate's title and
\* application name
LiveTarget(in) ==
    LET ws == in.window_all[1]
        hits == {i \in 1..Len(ws) : /\ ws[i].title = Clicked.title
                                    /\ ws[i].app_name = Clicked.app_name}
    IN  ws[CHOOSE i \in hits : \A j \in hits : i <= j]

\* the part of the background bg that is cut out for rect r
Region(r, bg) ==
    RgbaImage(bg.source, bg.ox + CropX(r), bg.oy + CropY(r),
              CropW(r, bg), CropH(r, bg))

\* the frame loaded img and made it the active image
NowActive(img) ==
    /\ loaded' # <<>>
    /\ loaded'[1].given = img
    /\ original_image' = <<img>>
    /\ image' = <<Vec2(img.width, img.height)>>

\* C18: on a click on a hovered candidate, a successful live capture of the
\* window with its title and application name becomes the active image;
\* failing that, the non-empty clamped crop of an existing background
\* snapshot does; failing both, the active image is unchanged.
C18_LiveCaptureBeforeCrop ==
    [][(/\ state = "PickingWindow"
        /\ last'.clicked
        /\ hovered_window_index' # <<>>) =>
           IF LiveCaptured(last')
           THEN NowActive(window_image(LiveTarget(last')))
           ELSE IF FallbackAvailable(Clicked.rect)
           THEN NowActive(Region(Clicked.rect, fullscreen_bg_image[1]))
           ELSE SessionKept]_vars

\* C18, reached: the resized window was captured live although a background
\* snapshot was there: the image has the window's new size.
C18_Witness ==
    /\ last.ev = "PickingClicked"
    /\ last.capture_ok
    /\ loaded # <<>>
    /\ loaded[1].given = window_image(W_resized)
    /\ original_image = <<window_image(W_resized)>>

\* C18, reached: the live capture failed and the crop of the background was
\* loaded.
C18_Fallback ==
    /\ last.ev = "PickingClicked"
    /\ ~last.capture_ok
    /\ loaded # <<>>
    /\ loaded[1].given.source = "monitor"

\* the region for r is not empty and lies inside the background bg
RegionInside(r, bg) ==
    /\ CropW(r, bg) > 0
    /\ CropH(r, bg) > 0
    /\ CropX(r) + CropW(r, bg) <= bg.width
    /\ CropY(r) + CropH(r, bg) <= bg.height

\* the rectangle the pointer spanned in the area pick that ends in this frame
AreaRect == Rect_from_two_pos(drag_start[1], last'.interact_pointer_pos[1])

\* C19: the image loaded from the frozen background, for a window whose
\* live capture failed and for a picked area, is the region at
\* (max(min.x, 0), max(min.y, 0)) of width min(width, bgW - x) and height
\* min(height, bgH - y), the differences saturating at 0; that region is
\* not empty and lies inside the background.
C19_CropInsideBackground ==
    [][/\ (/\ state = "PickingWindow"
           /\ last'.clicked
           /\ hovered_window_index' # <<>>
           /\ ~LiveCaptured(last')
           /\ loaded' # <<>>) =>
              /\ loaded'[1].given = Region(Clicked.rect, fullscreen_bg_image[1])
              /\ RegionInside(Clicked.rect, fullscreen_bg_image[1])
       /\ (/\ state = "PickingArea"
           /\ last'.drag_stopped
           /\ loaded' # <<>>) =>
              /\ loaded'[1].given = Region(AreaRect, fullscreen_bg_image[1])
              /\ RegionInside(AreaRect, fullscreen_bg_image[1])]_vars

\* C19, reached: an area dragged past the right and bottom edges of the
\* monitor was loaded, cut down to the part on the monitor.
C19_Witness ==
    /\ last.ev = "PickingDragStopped"
    /\ last.interact_pointer_pos = <<Pos2(130, 90)>>
    /\ loaded # <<>>
    /\ loaded[1].given.ox > 0
    /\ loaded[1].given.ox + loaded[1].given.width = 120
    /\ loaded[1].given.oy + loaded[1].given.height = 80

\* C19, reached: the fallback loaded the part on the monitor of a window
\* that reaches past the monitor's right and bottom edges.
C19_WindowClamped ==
    /\ last.ev = "PickingClicked"
    /\ loaded # <<>>
    /\ loaded[1].given = RgbaImage("monitor", 100, 60, 20, 20)

\* the points of annotation b are those of annotation a moved by d
Shifted(a, b, d) ==
    /\ Len(Geometry(b)) = Len(Geometry(a))
    /\ \A k \in 1..Len(Geometry(a)) :
          /\ Geometry(b)[k].x = Geometry(a)[k].x + d.x
          /\ Geometry(b)[k].y = Geometry(a)[k].y + d.y

\* the drag delta of the frame with input in, in image space
DeltaInImage(in) ==
    LET scale == scale_to_fit(in.avail, image[1])
    IN  Vec2((in.drag_delta.x * scale.den) \div scale.num,
             (in.drag_delta.y * scale.den) \div scale.num)

\* C20: in a frame in which the canvas reports a drag while an annotation
\* of the list is selected, that annotation's points move by the frame's
\* drag delta divided by the display scale and its colour, thickness, size
\* and text stay; the list keeps its length and every other annotation.
C20_DragTranslatesSelected ==
    [][(/\ last'.ev = "CanvasDragged"
        /\ active_annotation_index # <<>>
        /\ active_annotation_index[1] < Len(annotations)) =>
           /\ Len(AfterHandlers') = Len(annotations)
           /\ \A i \in 1..Len(annotations) :
                 IF i = active_annotation_index[1] + 1
                 THEN /\ Attributes(AfterHandlers'[i]) = Attributes(annotations[i])
                      /\ Shifted(annotations[i], AfterHandlers'[i],
                                 DeltaInImage(last'))
                 ELSE AfterHandlers'[i] = annotations[i]]_vars

\* C20, reached: with the image shown at half size and two annotations, a
\* drag frame with delta (6,-4) moved the selected arrow by (12,-8) in
\* image space, and the other annotation is where it was drawn.
C20_Witness ==
    /\ last.ev = "CanvasDragged"
    /\ last.avail = Vec2(60, 40)
    /\ last.drag_delta = Vec2(6, -4)
    /\ Len(annotations) = 2
    /\ active_annotation_index # <<>>
    /\ \E i \in 1..2 :
          /\ active_annotation_index[1] = i - 1
          /\ annotations[i].kind = "Arrow"
          /\ annotations[i].start \in {Pos2(22, 2), Pos2(34, -6)}
          /\ annotations[3 - i].kind = "Rect"
          /\ annotations[3 - i].rect = Rect_from_two_pos(Pos2(100, 10), Pos2(130, 90))

\* the list without its element of 0-based index i, the others in order
Without(list, i) ==
    [k \in 1..(Len(list) - 1) |-> IF k <= i THEN list[k] ELSE list[k + 1]]

\* the frame clicks the bin of a layer, or the Clear button
BinClicked == state = "Normal" /\ show_layers /\ last'.layer_remove # <<>>
ClearButtonClicked == state = "Normal" /\ last'.button = "Clear"

\* C21: a click on the bin of layer i leaves the list without exactly the
\* annotation of index i, the others in their order, and no annotation
\* selected; Clear leaves the list empty; a frame that does neither and
\* loads no image keeps every annotation in its place (it may move one or
\* append one).
C21_ShrinksOnlyByRemoval ==
    [][/\ BinClicked =>
             /\ AfterHandlers' = Without(annotations, last'.layer_remove[1])
             /\ active_annotation_index' = <<>>
       /\ ClearButtonClicked => AfterHandlers' = <<>>
       /\ (~BinClicked /\ ~ClearButtonClicked /\ loaded' = <<>>) =>
             /\ Len(annotations') >= Len(annotations)
             /\ \A i \in 1..Len(annotations) :
                   Attributes(annotations'[i]) = Attributes(annotations[i])]_vars

\* C21, reached: of an arrow and a rectangle drawn in that order, the arrow
\* (layer 0) was removed and the rectangle is the whole list.
C21_Witness ==
    /\ last.ev = "LayerRemoved"
    /\ last.layer_remove = <<0>>
    /\ Len(annotations) = 1
    /\ annotations[1].kind = "Rect"
    /\ active_annotation_index = <<>>

\* C22: a frame that starts in PickingWindow or PickingArea leaves the
\* current tool, the selected index and the text prompt (its anchor and its
\* string) as they were; it leaves the annotation list as it was, geometry
\* included, unless it loads a captured image, and then the list is empty.
C22_PickingFrameOnlyPicks ==
    [][InPicking =>
          /\ current_tool' = current_tool
          /\ active_annotation_index' = active_annotation_index
          /\ editing_text_pos' = editing_text_pos
          /\ temp_text' = temp_text
          /\ drawn' = <<>>
          /\ IF loaded' = <<>> THEN annotations' = annotations
             ELSE annotations' = <<>>]_vars

\* C22, reached: an area pick over a session with a selected annotation
\* loaded its image: the list is empty and the selection is what it was.
C22_Witness ==
    /\ last.ev = "PickingDragStopped"
    /\ loaded # <<>>
    /\ loaded[1].before # <<>>
    /\ annotations = <<>>
    /\ active_annotation_index = <<0>>
    /\ current_tool = "Arrow"

\* C22, reached: a picking frame that loaded nothing, over a session with
\* two annotations.
C22_Kept ==
    /\ last.ev \in {"PickingHover", "PickingClicked"}
    /\ loaded = <<>>
    /\ Len(annotations) = 2

\* C23 as claimed: the selected index, when set, is below the number of
\* annotations, in every state.
C23_SelectionValid ==
    active_annotation_index # <<>> =>
        active_annotation_index[1] < Len(annotations)

\* C24 as claimed: a frame that leaves picking mode, by a click, a drag
\* release or Escape, and a frame in which a canvas drag is released, end
\* with no drag start point recorded.
C24_DragStartEndsWithGesture ==
    [][/\ (InPicking /\ state' = "Normal") => drag_start' = <<>>
       /\ (state = "Normal" /\ last'.drag_stopped) => drag_start' = <<>>]_vars

\* C25 as claimed: the active image, when present, has a positive width and
\* a positive height: the texture and the pixel buffer it was made of.
C25_ImagePositive ==
    /\ image # <<>> => (image[1].x > 0 /\ image[1].y > 0)
    /\ original_image # <<>> =>
          (original_image[1].width > 0 /\ original_image[1].height > 0)

\* C26: in state Normal there is no frozen background, neither texture nor
\* pixels, and no candidate window; candidate windows are listed only in
\* state PickingWindow.
C26_PickerResourcesOnlyWhilePicking ==
    /\ state = "Normal" =>
          /\ fullscreen_bg = <<>>
          /\ fullscreen_bg_image = <<>>
          /\ windows = <<>>
    /\ windows # <<>> => state = "PickingWindow"

\* C26, reached: a click on a hovered candidate left picking mode: the
\* background was frozen and the list held the candidate in that frame,
\* and both are gone.
C26_Witness ==
    /\ state = "Normal"
    /\ last.ev = "PickingClicked"
    /\ hovered_window_index # <<>>
    /\ loaded # <<>>
    /\ loaded[1].given.source = "monitor"
    /\ windows = <<>>
    /\ fullscreen_bg_image = <<>>

\* C26, reached: candidates are listed over a frozen background.
C26_Listed ==
    /\ state = "PickingWindow"
    /\ Len(windows) = 2
    /\ fullscreen_bg_image # <<>>

\* C27: after every frame the viewport is fullscreen and undecorated in
\* PickingWindow and PickingArea, windowed and decorated in Normal, and
\* visible: enter_pick_mode hides it only while it takes the snapshot.
C27_ViewportFollowsState ==
    /\ (viewport.fullscreen /\ ~viewport.decorations) <=> InPicking
    /\ (~viewport.fullscreen /\ viewport.decorations) <=> state = "Normal"
    /\ viewport.visible

\* C27, reached: picking mode was entered although the snapshot failed,
\* and the window is visible, fullscreen and undecorated.
C27_Witness ==
    /\ state = "PickingArea"
    /\ last.ev = "SelectAreaClicked"
    /\ last.monitor = "CaptureErr"
    /\ viewport = [visible |-> TRUE, decorations |-> FALSE, fullscreen |-> TRUE]

\* C27, reached: Escape left picking mode and the window is windowed and
\* decorated again.
C27_Restored ==
    /\ state = "Normal"
    /\ last.ev = "PickingHover"
    /\ last.escape
    /\ viewport = [visible |-> TRUE, decorations |-> TRUE, fullscreen |-> FALSE]

\* p is in the rect r expanded by t on every side, borders included
InGrown(r, p, t) ==
    /\ r.min.x - t <= p.x /\ p.x <= r.max.x + t
    /\ r.min.y - t <= p.y /\ p.y <= r.max.y + t

\* the rect r shrunk by t is inverted: t exceeds half its width or height
ShrunkInverted(r, t) ==
    \/ 2 * t > r.max.x - r.min.x
    \/ 2 * t > r.max.y - r.min.y

\* C28: for a threshold t >= 0, hit_test of a Rectangle returns what the
\* containment of the point in the rect expanded by t returns, also when
\* the rect shrunk by t is inverted.
C28_RectHitIsGrownContainment ==
    (/\ probe.op = "hit" /\ probe.step = 1 /\ probe.ann.kind = "Rect"
     /\ probe.threshold >= 0) =>
        (probe.hit <=> InGrown(probe.ann.rect, probe.p, probe.threshold))

\* C28, reached: with a threshold above half the rectangle's height, a
\* point of the border zone outside the rectangle was tested and hit.
C28_Witness ==
    /\ probe.op = "hit"
    /\ probe.step = 1
    /\ probe.ann.kind = "Rect"
    /\ probe.threshold = 5
    /\ ShrunkInverted(probe.ann.rect, probe.threshold)
    /\ probe.p = [x |-> -3, y |-> 4]
    /\ probe.hit

\* C28, reached: with threshold 0 a point on the border was tested and hit.
C28_ZeroThreshold ==
    /\ probe.op = "hit"
    /\ probe.step = 1
    /\ probe.ann.kind = "Rect"
    /\ probe.threshold = 0
    /\ probe.p = probe.ann.rect.min
    /\ probe.hit

=============================================================================
